---- MODULE Spec2Model ----
(***************************************************************************)
(* Verification model of open-gate-viewer: the MetaImage (MHD/RAW) import  *)
(* of MHDHandler, the scene persistence of SceneSerializer and the dose    *)
(* evaluation / GATE export of RadiationSceneManager.                      *)
(*                                                                         *)
(* Conventions.  A JavaScript number is a record [kind, n, d]: kind "fin"  *)
(* is the exact rational n/d (d > 0, lowest terms), and "nan", "inf",      *)
(* "ninf", "undef" are NaN, +Infinity, -Infinity and undefined.  Rounding  *)
(* of binary floating point is not modelled: every input set below is      *)
(* chosen so that the values the code computes are exactly representable.  *)
(* A JavaScript string is a sequence of one-character strings.             *)
(***************************************************************************)
EXTENDS Integers, Sequences, FiniteSets, TLC

----------------------------------------------------------------------------
(* JavaScript numbers *)

Abs(i) == IF i < 0 THEN -i ELSE i

RECURSIVE GCD(_, _)
GCD(a, b) == IF b = 0 THEN a ELSE GCD(b, a % b)

Fin(n, d) ==
  LET g == GCD(Abs(n), Abs(d))
      s == IF d < 0 THEN -1 ELSE 1
  IN [kind |-> "fin", n |-> s * (n \div g), d |-> s * (d \div g)]

I(n) == [kind |-> "fin", n |-> n, d |-> 1]
NaN == [kind |-> "nan", n |-> 0, d |-> 1]
Inf == [kind |-> "inf", n |-> 0, d |-> 1]
NegInf == [kind |-> "ninf", n |-> 0, d |-> 1]
Undefined == [kind |-> "undef", n |-> 0, d |-> 1]

\* ToNumber(undefined) is NaN
ToNum(a) == IF a.kind = "undef" THEN NaN ELSE a

IsNaN(a) == ToNum(a).kind = "nan"
Sign(a) == CASE a.kind = "inf" -> 1
             [] a.kind = "ninf" -> -1
             [] a.kind = "fin" -> (IF a.n > 0 THEN 1 ELSE IF a.n < 0 THEN -1 ELSE 0)
             [] OTHER -> 0
InfOfSign(s) == IF s > 0 THEN Inf ELSE NegInf
Neg(a0) == LET a == ToNum(a0) IN
  CASE a.kind = "fin" -> Fin(-a.n, a.d)
    [] a.kind = "inf" -> NegInf
    [] a.kind = "ninf" -> Inf
    [] OTHER -> NaN

NAdd(a0, b0) == LET a == ToNum(a0) b == ToNum(b0) IN
  CASE a.kind = "nan" \/ b.kind = "nan" -> NaN
    [] a.kind = "fin" /\ b.kind = "fin" -> Fin(a.n * b.d + b.n * a.d, a.d * b.d)
    [] a.kind = "fin" -> b
    [] b.kind = "fin" -> a
    [] a.kind = b.kind -> a
    [] OTHER -> NaN
NSub(a, b) == NAdd(a, Neg(b))
NMul(a0, b0) == LET a == ToNum(a0) b == ToNum(b0) IN
  CASE a.kind = "nan" \/ b.kind = "nan" -> NaN
    [] a.kind = "fin" /\ b.kind = "fin" -> Fin(a.n * b.n, a.d * b.d)
    [] Sign(a) = 0 \/ Sign(b) = 0 -> NaN
    [] OTHER -> InfOfSign(Sign(a) * Sign(b))
NDiv(a0, b0) == LET a == ToNum(a0) b == ToNum(b0) IN
  CASE a.kind = "nan" \/ b.kind = "nan" -> NaN
    [] a.kind = "fin" /\ b.kind = "fin" ->
         IF b.n # 0 THEN Fin(a.n * b.d, a.d * b.n)
         ELSE IF a.n = 0 THEN NaN ELSE InfOfSign(Sign(a))
    [] a.kind = "fin" -> I(0)
    [] b.kind = "fin" -> InfOfSign(Sign(a) * (IF Sign(b) < 0 THEN -1 ELSE 1))
    [] OTHER -> NaN
\* a < b, a <= b, a > b, a >= b: every comparison with NaN is false
NLt(a0, b0) == LET a == ToNum(a0) b == ToNum(b0) IN
  CASE a.kind = "nan" \/ b.kind = "nan" -> FALSE
    [] a.kind = "fin" /\ b.kind = "fin" -> a.n * b.d < b.n * a.d
    [] a.kind = b.kind -> FALSE
    [] a.kind = "ninf" \/ b.kind = "inf" -> TRUE
    [] OTHER -> FALSE
NLe(a0, b0) == LET a == ToNum(a0) b == ToNum(b0) IN
  ~IsNaN(a) /\ ~IsNaN(b) /\ (a = b \/ NLt(a, b))
NGt(a, b) == NLt(b, a)
NGe(a, b) == NLe(b, a)
\* Math.floor
Floor(a0) == LET a == ToNum(a0) IN
  IF a.kind = "fin" THEN I((a.n - (a.n % a.d)) \div a.d) ELSE a

----------------------------------------------------------------------------
(* JavaScript strings, as sequences of characters.  The scans are written  *)
(* over index sets rather than by recursion on the text.                   *)

IsWs(c) == c \in {" ", "\t", "\n", "\r"}

\* String.prototype.trim
Trim(s) ==
  LET ink == {i \in 1..Len(s) : ~IsWs(s[i])} IN
  IF ink = {} THEN <<>>
  ELSE SubSeq(s, CHOOSE a \in ink : \A b \in ink : a <= b,
                 CHOOSE a \in ink : \A b \in ink : a >= b)

\* the k-th smallest element of a set of integers
KthOf(P, k) == CHOOSE p \in P : Cardinality({q \in P : q < p}) = k - 1

\* the pieces of s between separators: separator k occupies the positions
\* from KthOf(sepStart, k) to KthOf(sepEnd, k)
Pieces(s, sepStart, sepEnd) ==
  LET n == Cardinality(sepStart) IN
  [k \in 1..(n + 1) |->
     SubSeq(s, IF k = 1 THEN 1 ELSE KthOf(sepEnd, k - 1) + 1,
               IF k = n + 1 THEN Len(s) ELSE KthOf(sepStart, k) - 1)]

\* text.split(c) for a one-character separator c
SplitOn(s, c) ==
  LET at == {i \in 1..Len(s) : s[i] = c} IN Pieces(s, at, at)

\* text.split(/\r?\n/): a "\r" directly before the "\n" belongs to the separator
SplitLines(s) ==
  LET nl == {i \in 1..Len(s) : s[i] = "\n"}
      start == {IF i > 1 /\ s[i - 1] = "\r" THEN i - 1 ELSE i : i \in nl}
  IN Pieces(s, start, nl)

\* value.split(/\s+/): the separators are the maximal runs of whitespace
SplitWs(s) ==
  LET ws == {i \in 1..Len(s) : IsWs(s[i])}
  IN Pieces(s, {i \in ws : i - 1 \notin ws}, {i \in ws : i + 1 \notin ws})

\* parts.join(sep)
RECURSIVE Join(_, _)
Join(parts, sep) ==
  IF parts = <<>> THEN <<>>
  ELSE IF Len(parts) = 1 THEN parts[1]
  ELSE parts[1] \o sep \o Join(Tail(parts), sep)

DigitChars == <<"0", "1", "2", "3", "4", "5", "6", "7", "8", "9">>
IsDigit(c) == \E k \in 1..10 : DigitChars[k] = c
DigitVal(c) == (CHOOSE k \in 1..10 : DigitChars[k] = c) - 1
AllDigits(s) == \A k \in 1..Len(s) : IsDigit(s[k])
RECURSIVE DigitsVal(_)
DigitsVal(s) == IF s = <<>> THEN 0 ELSE 10 * DigitsVal(SubSeq(s, 1, Len(s) - 1)) + DigitVal(s[Len(s)])
RECURSIVE Pow10(_)
Pow10(k) == IF k = 0 THEN 1 ELSE 10 * Pow10(k - 1)

\* Number(s) (StringToNumber): surrounding whitespace is ignored, the empty
\* string is 0, a signed decimal literal is its value, "Infinity" is
\* Infinity and any other text is NaN.  Exponent and radix-prefixed literals
\* occur in none of the texts of this model.
UnsignedToNumber(u) ==
  IF u = <<"I", "n", "f", "i", "n", "i", "t", "y">> THEN Inf
  ELSE LET parts == SplitOn(u, ".")
           ip == parts[1]
           fp == IF Len(parts) = 2 THEN parts[2] ELSE <<>>
       IN IF Len(parts) <= 2 /\ AllDigits(ip) /\ AllDigits(fp) /\ Len(ip) + Len(fp) > 0
          THEN Fin(DigitsVal(ip) * Pow10(Len(fp)) + DigitsVal(fp), Pow10(Len(fp)))
          ELSE NaN
StrToNumber(s) ==
  LET t == Trim(s) IN
  IF t = <<>> THEN I(0)
  ELSE IF Head(t) = "-" THEN Neg(UnsignedToNumber(Tail(t)))
  ELSE IF Head(t) = "+" THEN UnsignedToNumber(Tail(t))
  ELSE UnsignedToNumber(t)

\* String(n) (Number::toString) for the values of this model: integers and
\* terminating decimals in positional notation.
RECURSIVE NatToStr(_)
NatToStr(n) == IF n < 10 THEN <<DigitChars[n + 1]>> ELSE Append(NatToStr(n \div 10), DigitChars[(n % 10) + 1])
PadZeros(s, k) == [i \in 1..(k - Len(s)) |-> "0"] \o s
MaxFracDigits == 6
FracDigits(d) == CHOOSE k \in 0..MaxFracDigits : Pow10(k) % d = 0 /\ \A j \in 0..(k - 1) : Pow10(j) % d # 0
NumToStr(a) ==
  CASE a.kind = "nan" -> <<"N", "a", "N">>
    [] a.kind = "inf" -> <<"I", "n", "f", "i", "n", "i", "t", "y">>
    [] a.kind = "ninf" -> <<"-", "I", "n", "f", "i", "n", "i", "t", "y">>
    [] a.kind = "undef" -> <<"u", "n", "d", "e", "f", "i", "n", "e", "d">>
    [] OTHER ->
       LET k == FracDigits(a.d)
           m == (Abs(a.n) * Pow10(k)) \div a.d
           ip == NatToStr(m \div Pow10(k))
           fp == IF k = 0 THEN <<>> ELSE <<".">> \o PadZeros(NatToStr(m % Pow10(k)), k)
       IN (IF a.n < 0 THEN <<"-">> ELSE <<>>) \o ip \o fp

----------------------------------------------------------------------------
(* Typed arrays and DataView.  An ArrayBuffer is a sequence of bytes; a    *)
(* Float32Array is the byte sequence of its buffer, four bytes per         *)
(* element in little-endian order (the byte order of the platforms the     *)
(* application runs on).                                                    *)

RECURSIVE Pow2(_)
Pow2(k) == IF k = 0 THEN 1 ELSE 2 * Pow2(k - 1)

\* m * 2^k as an exact number
RECURSIVE Scale2(_, _)
Scale2(m, k) ==
  IF k >= 0 THEN I(m * Pow2(k))
  ELSE IF m % 2 = 0 THEN Scale2(m \div 2, k + 1)
  ELSE Fin(m, Pow2(-k))

\* the value of the IEEE-754 binary32 whose little-endian bytes are b
F32Decode(b) ==
  LET sign == b[4] \div 128
      e == (b[4] % 128) * 2 + (b[3] \div 128)
      frac == (b[3] % 128) * 65536 + b[2] * 256 + b[1]
      mag == IF e = 0 THEN (IF frac = 0 THEN I(0) ELSE Scale2(frac, -149))
             ELSE Scale2(8388608 + frac, e - 150)
  IN IF e = 255 THEN (IF frac # 0 THEN NaN ELSE IF sign = 1 THEN NegInf ELSE Inf)
     ELSE IF sign = 1 THEN Neg(mag) ELSE mag

\* floor(log2(n/d)) for n, d > 0
RECURSIVE FloorLog2(_, _)
FloorLog2(n, d) ==
  IF n >= 2 * d THEN 1 + FloorLog2(n, 2 * d)
  ELSE IF n < d THEN FloorLog2(2 * n, d) - 1
  ELSE 0

F32Bytes(sign, e, frac) ==
  << frac % 256, (frac \div 256) % 256, (e % 2) * 128 + (frac \div 65536), sign * 128 + (e \div 2) >>

\* the little-endian bytes of Math.fround(v): round to nearest, ties to even
F32Encode(v0) ==
  LET v == ToNum(v0) IN
  CASE v.kind = "nan" -> <<0, 0, 192, 127>>
    [] v.kind = "inf" -> <<0, 0, 128, 127>>
    [] v.kind = "ninf" -> <<0, 0, 128, 255>>
    [] v.n = 0 -> <<0, 0, 0, 0>>
    [] OTHER ->
       LET sign == IF v.n < 0 THEN 1 ELSE 0
           n == Abs(v.n)
           E == FloorLog2(n, v.d)
           \* n/d * 2^(23-E) = num/den with 2^23 <= num/den < 2^24
           num == IF E <= 23 THEN n * Pow2(23 - E) ELSE n
           den == IF E <= 23 THEN v.d ELSE v.d * Pow2(E - 23)
           q == num \div den
           r == num % den
           up == 2 * r > den \/ (2 * r = den /\ q % 2 = 1)
           m == IF up THEN q + 1 ELSE q
           E2 == IF m = 16777216 THEN E + 1 ELSE E
           m2 == IF m = 16777216 THEN 8388608 ELSE m
       IN F32Bytes(sign, E2 + 127, m2 - 8388608)

\* Math.fround
F32Round(v) == F32Decode(F32Encode(v))

F32Length(arr) == Len(arr) \div 4
\* arr[i], i from 0; undefined outside the array
F32Get(arr, i) ==
  IF i >= 0 /\ i < F32Length(arr) THEN F32Decode(SubSeq(arr, 4 * i + 1, 4 * i + 4)) ELSE Undefined
\* new Float32Array(values)
F32FromValues(vals) ==
  [j \in 1..(4 * Len(vals)) |-> F32Encode(vals[((j - 1) \div 4) + 1])[((j - 1) % 4) + 1]]

Reverse(s) == [i \in 1..Len(s) |-> s[Len(s) + 1 - i]]
\* the unsigned integer whose little-endian bytes are b
RECURSIVE UIntLE(_)
UIntLE(b) == IF b = <<>> THEN 0 ELSE Head(b) + 256 * UIntLE(Tail(b))
\* two's complement value of the little-endian bytes b
IntLE(b) ==
  IF b[Len(b)] >= 128
  THEN UIntLE([i \in 1..Len(b) |-> IF i = Len(b) THEN b[i] - 128 ELSE b[i]]) - Pow2(8 * Len(b) - 1)
  ELSE UIntLE(b)
\* binary64 decode.  Only doubles whose low four bytes are zero are decoded
\* (their significand fits the integers of the checker); a raw file of this
\* model holds no other double, and the CHOOSE fails if one were read.
F64Decode(b) ==
  LET sign == b[8] \div 128
      e == (b[8] % 128) * 16 + (b[7] \div 16)
      frac == (b[7] % 16) * 65536 + b[6] * 256 + b[5]
      mag == IF \E i \in 1..4 : b[i] # 0 THEN CHOOSE x \in {} : TRUE
             ELSE IF e = 0 THEN (IF frac = 0 THEN I(0) ELSE Scale2(frac, -1042))
             ELSE Scale2(1048576 + frac, e - 1043)
  IN IF e = 2047 THEN (IF frac # 0 THEN NaN ELSE IF sign = 1 THEN NegInf ELSE Inf)
     ELSE IF sign = 1 THEN Neg(mag) ELSE mag

----------------------------------------------------------------------------
(* MHDHandler: header text, raw payload, visualization *)

\* a header is a function from keys to values; header[k] of an absent key
\* is undefined
EmptyHeader == [k \in {} |-> <<>>]
UndefStr == <<"undefined">>
HasKey(h, k) == k \in DOMAIN h
HGet(h, k) == IF HasKey(h, k) THEN h[k] ELSE UndefStr
HPut(h, k, v) == [x \in DOMAIN h \cup {k} |-> IF x = k THEN v ELSE h[x]]

kDimSize == <<"D", "i", "m", "S", "i", "z", "e">>
kElementSpacing == <<"E", "l", "e", "m", "e", "n", "t", "S", "p", "a", "c", "i", "n", "g">>
kOffset == <<"O", "f", "f", "s", "e", "t">>
kElementType == <<"E", "l", "e", "m", "e", "n", "t", "T", "y", "p", "e">>
kBinaryDataByteOrderMSB == <<"B", "i", "n", "a", "r", "y", "D", "a", "t", "a", "B", "y", "t", "e", "O", "r", "d", "e", "r", "M", "S", "B">>
kElementDataFile == <<"E", "l", "e", "m", "e", "n", "t", "D", "a", "t", "a", "F", "i", "l", "e">>

\* MHDHandler.parseHeader
RECURSIVE ParseLines(_, _)
ParseLines(lines, h) ==
  IF lines = <<>> THEN h
  ELSE LET line == Head(lines)
           parts == SplitOn(line, "=")
       IN IF Trim(line) = <<>> THEN ParseLines(Tail(lines), h)
          ELSE IF Len(parts) >= 2
               THEN ParseLines(Tail(lines), HPut(h, Trim(parts[1]), Trim(parts[2])))
               ELSE ParseLines(Tail(lines), h)
parseHeader(text) == ParseLines(SplitLines(text), EmptyHeader)

\* header[key].split(/\s+/).map(Number)
NumList(str) == LET parts == SplitWs(str) IN [i \in 1..Len(parts) |-> StrToNumber(parts[i])]
\* arr[i], i from 0
Idx(arr, i) == IF i + 1 \in DOMAIN arr THEN arr[i + 1] ELSE Undefined

\* MHDHandler.getTypeSize
getTypeSize(type) ==
  CASE type \in {<<"M", "E", "T", "_", "U", "C", "H", "A", "R">>, <<"M", "E", "T", "_", "C", "H", "A", "R">>} -> 1
    [] type \in {<<"M", "E", "T", "_", "U", "S", "H", "O", "R", "T">>, <<"M", "E", "T", "_", "S", "H", "O", "R", "T">>} -> 2
    [] type \in {<<"M", "E", "T", "_", "U", "I", "N", "T">>, <<"M", "E", "T", "_", "I", "N", "T">>, <<"M", "E", "T", "_", "F", "L", "O", "A", "T">>} -> 4
    [] type = <<"M", "E", "T", "_", "D", "O", "U", "B", "L", "E">> -> 8
    [] OTHER -> 4

\* getDataGetter with a default getter, as getTypeSize has a default size
getDataGetter_DefaultFloat(type) ==
  IF type \in {<<"M", "E", "T", "_", "U", "C", "H", "A", "R">>, <<"M", "E", "T", "_", "C", "H", "A", "R">>, <<"M", "E", "T", "_", "U", "S", "H", "O", "R", "T">>, <<"M", "E", "T", "_", "S", "H", "O", "R", "T">>, <<"M", "E", "T", "_", "U", "I", "N", "T">>, <<"M", "E", "T", "_", "I", "N", "T">>, <<"M", "E", "T", "_", "D", "O", "U", "B", "L", "E">>}
  THEN CASE type = <<"M", "E", "T", "_", "U", "C", "H", "A", "R">> -> "getUint8"
         [] type = <<"M", "E", "T", "_", "C", "H", "A", "R">> -> "getInt8"
         [] type = <<"M", "E", "T", "_", "U", "S", "H", "O", "R", "T">> -> "getUint16"
         [] type = <<"M", "E", "T", "_", "S", "H", "O", "R", "T">> -> "getInt16"
         [] type = <<"M", "E", "T", "_", "U", "I", "N", "T">> -> "getUint32"
         [] type = <<"M", "E", "T", "_", "I", "N", "T">> -> "getInt32"
         [] type = <<"M", "E", "T", "_", "D", "O", "U", "B", "L", "E">> -> "getFloat64"
  ELSE "getFloat32"

\* MHDHandler.getDataGetter; "null" when the type has no getter
getDataGetter(type) ==
  CASE type = <<"M", "E", "T", "_", "U", "C", "H", "A", "R">> -> "getUint8"
    [] type = <<"M", "E", "T", "_", "C", "H", "A", "R">> -> "getInt8"
    [] type = <<"M", "E", "T", "_", "U", "S", "H", "O", "R", "T">> -> "getUint16"
    [] type = <<"M", "E", "T", "_", "S", "H", "O", "R", "T">> -> "getInt16"
    [] type = <<"M", "E", "T", "_", "U", "I", "N", "T">> -> "getUint32"
    [] type = <<"M", "E", "T", "_", "I", "N", "T">> -> "getInt32"
    [] type = <<"M", "E", "T", "_", "F", "L", "O", "A", "T">> -> "getFloat32"
    [] type = <<"M", "E", "T", "_", "D", "O", "U", "B", "L", "E">> -> "getFloat64"
    [] OTHER -> "null"

\* the byte width a DataView getter reads
GetterSize(getter) ==
  CASE getter \in {"getUint8", "getInt8"} -> 1
    [] getter \in {"getUint16", "getInt16"} -> 2
    [] getter = "getFloat64" -> 8
    [] OTHER -> 4

\* getter.call(dataView, byteOffset, littleEndian) for an in-range read
DataViewGet(getter, buffer, byteOffset, littleEndian) ==
  LET raw == SubSeq(buffer, byteOffset + 1, byteOffset + GetterSize(getter))
      b == IF littleEndian THEN raw ELSE Reverse(raw)
  IN CASE getter \in {"getUint8", "getUint16", "getUint32"} -> I(UIntLE(b))
       [] getter \in {"getInt8", "getInt16", "getInt32"} -> I(IntLE(b))
       [] getter = "getFloat32" -> F32Decode(b)
       [] getter = "getFloat64" -> F64Decode(b)

\* the number of iterations of  for (i = 0; i < bound; i++)
LoopCount(bound0) == LET bound == ToNum(bound0) IN
  IF bound.kind = "fin" /\ bound.n > 0 THEN (bound.n + bound.d - 1) \div bound.d ELSE 0

\* new Float32Array(count): ToIndex(count); a negative or infinite count is
\* a RangeError
AllocThrows(count0) == LET count == ToNum(count0) IN
  \/ count.kind \in {"inf", "ninf"}
  \/ count.kind = "fin" /\ count.n <= -count.d
AllocLength(count0) == LET count == ToNum(count0) IN
  IF count.kind = "fin" /\ count.n > 0 THEN count.n \div count.d ELSE 0

\* the loop of parseRawData: element i is read at byte offset i * step and
\* stored, rounded to binary32, in resultData[i]
ReadElements(getter, buffer, step, littleEndian, n) ==
  [j \in 1..(4 * n) |->
     F32Encode(DataViewGet(getter, buffer, ((j - 1) \div 4) * step, littleEndian))[((j - 1) % 4) + 1]]

RawResult(ret, data, alerts, warns, reads) ==
  [ret |-> ret, data |-> data, alerts |-> alerts, warns |-> warns, reads |-> reads]

\* MHDHandler.parseRawData.  ret is "data" (a Float32Array is returned),
\* "null" or "throw" (an exception leaves the method); alerts and warns are
\* the window.alert and console.warn calls made; reads is the number of
\* DataView reads performed.
parseRawData(buffer, header) ==
  IF ~HasKey(header, kDimSize) THEN RawResult("throw", <<>>, <<>>, <<>>, 0)
  ELSE
  LET isBigEndian == HGet(header, kBinaryDataByteOrderMSB) = <<"T", "r", "u", "e">>
      type == HGet(header, kElementType)
      dims == NumList(header[kDimSize])
      expectedCount == NMul(NMul(Idx(dims, 0), Idx(dims, 1)), Idx(dims, 2))
      getter == getDataGetter(type)
      step == getTypeSize(type)
      warns == IF NLt(I(Len(buffer)), NMul(expectedCount, I(step)))
               THEN <<"Buffer size warning">> ELSE <<>>
      loops == LoopCount(expectedCount)
      \* a read at byteOffset throws RangeError unless byteOffset + step <= byteLength
      fit == Len(buffer) \div step
      length == AllocLength(expectedCount)
  IN IF AllocThrows(expectedCount)
       THEN RawResult("null", <<>>, <<"Error parsing RAW file.">>, <<>>, 0)
     ELSE IF getter = "null"
       THEN RawResult("null", <<>>, <<"Unsupported ElementType">>, <<>>, 0)
     ELSE IF ToNum(expectedCount).kind = "inf" \/ loops > fit
       THEN RawResult("null", <<>>, <<"Error parsing RAW file.">>, warns, fit)
     ELSE RawResult("data", ReadElements(getter, buffer, step, ~isBigEndian, length),
                    <<>>, warns, loops)

\* the range scan of createVisualization (lines 147-151): a comparison with
\* NaN is false, so minVal and maxVal are the least and the greatest of the
\* values that are not NaN, and stay Infinity and -Infinity without one
DataRange(data) ==
  LET vals == {F32Get(data, i) : i \in 0..(F32Length(data) - 1)}
      nums == {v \in vals : ~IsNaN(v)}
  IN [minVal |-> IF nums = {} THEN Inf ELSE CHOOSE v \in nums : \A w \in nums : NLe(v, w),
      maxVal |-> IF nums = {} THEN NegInf ELSE CHOOSE v \in nums : \A w \in nums : NGe(v, w)]

\* The position loops of createVisualization (lines 163-181):
\*   for z < dims[2], for y < dims[1], for x < dims[0]: store, idx++
\* so iteration idx has x = idx mod nx, y = (idx div nx) mod ny and
\* z = idx div (nx * ny), where nx, ny, nz are the loop counts.  The GATE
\* point (gateX, gateY, gateZ) is stored as (gateX, gateZ, gateY).
\* allPositions is a Float32Array of data.length * 3 zeros: a store past
\* its end is dropped and an element never stored stays 0.
VisPosition(g, x, y, z) ==
  LET gateX == NAdd(Idx(g.offset, 0), NMul(I(x), Idx(g.spacing, 0)))
      gateY == NAdd(Idx(g.offset, 1), NMul(I(y), Idx(g.spacing, 1)))
      gateZ == NAdd(Idx(g.offset, 2), NMul(I(z), Idx(g.spacing, 2)))
  IN <<F32Round(gateX), F32Round(gateZ), F32Round(gateY)>>
AllPositions(g, length) ==
  LET nx == LoopCount(Idx(g.dims, 0))
      ny == LoopCount(Idx(g.dims, 1))
      nz == LoopCount(Idx(g.dims, 2))
  IN [i \in 1..length |->
        IF i <= nx * ny * nz
        THEN VisPosition(g, (i - 1) % nx, ((i - 1) \div nx) % ny, (i - 1) \div (nx * ny))
        ELSE <<I(0), I(0), I(0)>>]

\* updateGeometry: the indices of the voxels that are displayed
updateGeometry(data, minThresh, maxThresh) ==
  {i \in 0..(F32Length(data) - 1) : NGe(F32Get(data, i), minThresh) /\ NLe(F32Get(data, i), maxThresh)}

\* MHDHandler.createVisualization.  A missing DimSize, ElementSpacing or
\* Offset is a TypeError (split of undefined) before anything is added to
\* the scene.
VisThrows(header) ==
  ~HasKey(header, kDimSize) \/ ~HasKey(header, kElementSpacing) \/ ~HasKey(header, kOffset)
createVisualization(data, header, id) ==
  LET g == [dims |-> NumList(header[kDimSize]),
            spacing |-> NumList(header[kElementSpacing]),
            offset |-> NumList(header[kOffset])]
      rg == DataRange(data)
      params == [minThreshold |-> NAdd(rg.minVal, NMul(NSub(rg.maxVal, rg.minVal), Fin(1, 10))),
                 maxThreshold |-> rg.maxVal,
                 pointSize |-> NMul(Idx(g.spacing, 0), Fin(9, 10)),
                 visible |-> TRUE]
  IN [id |-> id,
      header |-> header,
      data |-> data,
      params |-> params,
      minVal |-> rg.minVal,
      maxVal |-> rg.maxVal,
      positions |-> AllPositions(g, F32Length(data)),
      shown |-> updateGeometry(data, params.minThreshold, params.maxThreshold),
      materialSize |-> NMul(Idx(g.spacing, 0), Fin(9, 10)),
      visible |-> TRUE]

----------------------------------------------------------------------------
(* State *)

VARIABLES
  header,           \* mhdHandler.header
  loadPc,           \* per load call: where the async function MHDHandler.load is
  loadFiles,        \* per load call: the file list handed to loadMHD (index in FileLists, 0 for none)
  loadRaw,          \* per load call: what parseRawData returned to it
  loadUsed,         \* per load call: the header it passed to parseRawData
  loadRet,          \* per load call: the id of the points object load resolved to, 0 for null
  nextId,           \* object identities handed out so far
  points,           \* the THREE.Points objects created, by id
  scene,            \* ids of the points objects that are children of manager.scene
  importedVolumes,  \* manager.importedVolumes, as ids
  alerts,           \* the window.alert calls made, in order
  warnings,         \* the console.warn calls made, in order
  b64Pc,            \* persistence codec: "start", "encoded" or "decoded"
  b64In,            \* the Float32Array handed to float32ToBase64
  b64Text,          \* the dataBase64 string it returned
  b64Out,           \* what base64ToFloat32 made of that string
  dosePc,           \* dose evaluation: "start" or "done"
  dosePoint,        \* the point handed to calculateDoseAtPoint
  doseSources,      \* the worldSources handed to calculateDoseAtPoint
  doseResult,       \* what calculateDoseAtPoint returned
  exportPc,         \* export pipeline: "start", "exported", "parsed" or "shown"
  simulationConfig, \* manager.simulationConfig
  sources,          \* manager.sources, with the world position of each mesh
  exported,         \* what exportGateFiles handed off: the payload and the header text
  reimported,       \* the exported pair read back: parsed header, decoded grid, visualization
  persistPc,        \* scene persistence: the last thing done, "editing", "saved" or "loaded"
  savedFile,        \* the scene file written by the last saveScene, <<>> before the first
  exportCalls,      \* per exportGateFiles call: its timer and the header text the timer holds
  downloads,        \* the files handed to the browser by downloadBlob, in order
  parsePc,          \* header parsing: "start" or "done"
  parseText,        \* the text handed to parseHeader
  parseOut,         \* the header object it returned
  gui,              \* the Voxel Domain folder: whether its controllers are bound to the objects
                    \* simulationConfig holds, the last value set through it, the domain box
  meshes,           \* manager.meshes
  assetLoads,       \* the STLLoader.load requests made, with their state
  staleLoads        \* the loadMHD calls that were in flight when clearScene ran

loadVars == <<header, loadPc, loadFiles, loadRaw, loadUsed, loadRet>>
sceneVars == <<nextId, points, scene, importedVolumes>>
logVars == <<alerts, warnings>>
b64Vars == <<b64Pc, b64In, b64Text, b64Out>>
doseVars == <<dosePc, dosePoint, doseSources, doseResult>>
exportVars == <<exportPc, simulationConfig, sources, exported, reimported>>
persistVars == <<persistPc, savedFile>>
handoffVars == <<exportCalls, downloads>>
parseVars == <<parsePc, parseText, parseOut>>
assetVars == <<meshes, assetLoads, staleLoads>>
moreVars == <<handoffVars, parseVars, gui, assetVars>>
vars == <<loadVars, sceneVars, logVars, b64Vars, doseVars, exportVars, persistVars, moreVars>>

\* the variables an import leaves alone
notLoad == <<b64Vars, doseVars, exportVars, persistVars, moreVars>>
\* the variables the persistence codec leaves alone
notB64 == <<loadVars, sceneVars, logVars, doseVars, exportVars, persistVars, moreVars>>
\* the variables a dose evaluation leaves alone
notDose == <<loadVars, sceneVars, logVars, b64Vars, exportVars, persistVars, moreVars>>
\* the variables the export pipeline leaves alone
notExport == <<loadVars, sceneVars, logVars, b64Vars, doseVars, persistVars, moreVars>>
\* the variables the volume controls, saveScene and loadScene leave alone
notPersist == <<loadVars, warnings, b64Vars, doseVars, exportPc, exported, reimported, handoffVars, parseVars>>

MaxCalls == 2
Calls == 1..MaxCalls

NoRaw == RawResult("none", <<>>, <<>>, <<>>, 0)
NoDecode == [ok |-> FALSE, arr |-> <<>>]
Vec(x, y, z) == [x |-> x, y |-> y, z |-> z]

\* the box updateDoseBoxVisual gives the domain box helper
BoxOf(conf) == [min |-> conf.offset,
                max |-> Vec(NAdd(conf.offset.x, conf.domainSize.x),
                            NAdd(conf.offset.y, conf.domainSize.y),
                            NAdd(conf.offset.z, conf.domainSize.z))]
NoEdit == <<>>

\* the state of each part before it is used
HandoffIdle ==
  /\ exportCalls = <<>>
  /\ downloads = <<>>
ParseIdle ==
  /\ parsePc = "idle"
  /\ parseText = <<>>
  /\ parseOut = EmptyHeader
GuiIdle == gui = [linked |-> TRUE, edit |-> NoEdit, box |-> BoxOf(simulationConfig)]
AssetIdle ==
  /\ meshes = <<>>
  /\ assetLoads = <<>>
  /\ staleLoads = {}
PersistIdle ==
  /\ persistPc = "idle"
  /\ savedFile = <<>>
LoadIdle ==
  /\ header = EmptyHeader
  /\ loadPc = [c \in Calls |-> "idle"]
  /\ loadFiles = [c \in Calls |-> 0]
  /\ loadRaw = [c \in Calls |-> NoRaw]
  /\ loadUsed = [c \in Calls |-> EmptyHeader]
  /\ loadRet = [c \in Calls |-> 0]
  /\ nextId = 0
  /\ points = <<>>
  /\ scene = {}
  /\ importedVolumes = <<>>
  /\ alerts = <<>>
  /\ warnings = <<>>
B64Idle ==
  /\ b64Pc = "idle"
  /\ b64In = <<>>
  /\ b64Text = <<>>
  /\ b64Out = NoDecode
DoseIdle ==
  /\ dosePc = "idle"
  /\ dosePoint = Vec(I(0), I(0), I(0))
  /\ doseSources = <<>>
  /\ doseResult = I(0)
ExportIdle ==
  /\ exportPc = "idle"
  /\ simulationConfig = [domainSize |-> Vec(I(100000), I(10000), I(100000)),
                         voxelResolution |-> Vec(I(50), I(50), I(50)),
                         offset |-> Vec(I(-50000), I(-5000), I(-50000))]
  /\ sources = <<>>
  /\ exported = [raw |-> <<>>, mhd |-> <<>>]
  /\ reimported = [header |-> EmptyHeader, raw |-> NoRaw, vis |-> <<>>]

----------------------------------------------------------------------------
(* Import of .mhd/.raw pairs: the files *)

CRLF == <<"\r", "\n">>
Line(k, v) == k \o <<" ", "=", " ">> \o v
MhdText(type, msb, dim, spacing, offset) ==
  Join(<<Line(<<"O", "b", "j", "e", "c", "t", "T", "y", "p", "e">>, <<"I", "m", "a", "g", "e">>), Line(<<"N", "D", "i", "m", "s">>, <<"3">>),
         Line(kBinaryDataByteOrderMSB, msb)>>
       \o (IF offset = UndefStr THEN <<>> ELSE <<Line(kOffset, offset)>>)
       \o (IF spacing = UndefStr THEN <<>> ELSE <<Line(kElementSpacing, spacing)>>)
       \o (IF dim = UndefStr THEN <<>> ELSE <<Line(kDimSize, dim)>>)
       \o (IF type = UndefStr THEN <<>> ELSE <<Line(kElementType, type)>>)
       \o <<Line(kElementDataFile, <<"d", "o", "s", "e", ".", "r", "a", "w">>)>>, CRLF)

FilePair(mhd, raw) == [hasMhd |-> TRUE, hasRaw |-> TRUE, mhd |-> mhd, raw |-> raw]

\* The file lists a user can drop on the importer: well-formed volumes of
\* several element types, a payload shorter than its header declares,
\* element types outside the known tokens, and headers whose geometry keys
\* are absent or malformed.  Every aligned four-byte group of a payload is
\* a binary32 of moderate magnitude, so that a payload decoded under any of
\* the headers yields values this model represents exactly.
FileLists == <<
  FilePair(MhdText(<<"M", "E", "T", "_", "F", "L", "O", "A", "T">>, <<"F", "a", "l", "s", "e">>, <<"2", " ", "1", " ", "1">>, <<"1", " ", "1", " ", "1">>, <<"0", " ", "0", " ", "0">>), F32FromValues(<<I(0), I(100)>>)),
  FilePair(MhdText(<<"M", "E", "T", "_", "U", "C", "H", "A", "R">>, <<"F", "a", "l", "s", "e">>, <<"1", " ", "1", " ", "1">>, <<"2", " ", "2", " ", "2">>, <<"5", " ", "6", " ", "7">>), <<7>>),
  FilePair(MhdText(<<"M", "E", "T", "_", "F", "L", "O", "A", "T">>, <<"F", "a", "l", "s", "e">>, <<"2", " ", "1", " ", "1">>, <<"1", " ", "1", " ", "1">>, <<"0", " ", "0", " ", "0">>), F32FromValues(<<I(5)>>)),
  FilePair(MhdText(<<"M", "E", "T", "_", "U", "N", "K", "N", "O", "W", "N">>, <<"F", "a", "l", "s", "e">>, <<"2", " ", "1", " ", "1">>, <<"1", " ", "1", " ", "1">>, <<"0", " ", "0", " ", "0">>), F32FromValues(<<I(1), I(2)>>)),
  FilePair(MhdText(UndefStr, <<"F", "a", "l", "s", "e">>, <<"1", " ", "1", " ", "1">>, <<"1", " ", "1", " ", "1">>, <<"0", " ", "0", " ", "0">>), F32FromValues(<<I(1)>>)),
  FilePair(MhdText(<<"M", "E", "T", "_", "F", "L", "O", "A", "T">>, <<"F", "a", "l", "s", "e">>, <<"3", " ", "1">>, <<"1", " ", "1", " ", "1">>, <<"0", " ", "0", " ", "0">>), F32FromValues(<<I(1), I(2), I(3)>>)),
  FilePair(MhdText(<<"M", "E", "T", "_", "F", "L", "O", "A", "T">>, <<"F", "a", "l", "s", "e">>, UndefStr, <<"1", " ", "1", " ", "1">>, <<"0", " ", "0", " ", "0">>), F32FromValues(<<I(1)>>)),
  FilePair(MhdText(<<"M", "E", "T", "_", "F", "L", "O", "A", "T">>, <<"F", "a", "l", "s", "e">>, <<"1", " ", "1", " ", "1">>, UndefStr, <<"0", " ", "0", " ", "0">>), F32FromValues(<<I(1)>>)),
  [hasMhd |-> TRUE, hasRaw |-> FALSE, mhd |-> MhdText(<<"M", "E", "T", "_", "F", "L", "O", "A", "T">>, <<"F", "a", "l", "s", "e">>, <<"1", " ", "1", " ", "1">>, <<"1", " ", "1", " ", "1">>, <<"0", " ", "0", " ", "0">>), raw |-> <<>>]
>>

InitLoad ==
  /\ LoadIdle /\ B64Idle /\ DoseIdle /\ ExportIdle /\ PersistIdle
  /\ HandoffIdle /\ ParseIdle /\ GuiIdle /\ AssetIdle

\* RadiationSceneManager.loadMHD up to the first await of MHDHandler.load.
\* The calls are numbered in the order in which they are made.
loadMHD(c, k) ==
  /\ loadPc[c] = "idle"
  /\ \A d \in Calls : d < c => loadPc[d] # "idle"
  /\ loadFiles' = [loadFiles EXCEPT ![c] = k]
  /\ IF ~FileLists[k].hasMhd \/ ~FileLists[k].hasRaw
     THEN /\ alerts' = Append(alerts, "Missing .mhd or .raw file.")
          /\ loadPc' = [loadPc EXCEPT ![c] = "done"]
     ELSE /\ alerts' = alerts
          /\ loadPc' = [loadPc EXCEPT ![c] = "readText"]
  /\ UNCHANGED <<header, loadRaw, loadUsed, loadRet, sceneVars, warnings>>
  /\ UNCHANGED notLoad

\* readFileAsText resolved: load assigns this.header and starts the raw read
HeaderLoaded(c) ==
  /\ loadPc[c] = "readText"
  /\ header' = parseHeader(FileLists[loadFiles[c]].mhd)
  /\ loadPc' = [loadPc EXCEPT ![c] = "readBuffer"]
  /\ UNCHANGED <<loadFiles, loadRaw, loadUsed, loadRet, sceneVars, logVars>>
  /\ UNCHANGED notLoad

\* readFileAsBuffer resolved: load runs parseRawData and createVisualization
\* with this.header as it is now, and returns
BufferLoaded(c) ==
  /\ loadPc[c] = "readBuffer"
  /\ \E res \in {parseRawData(FileLists[loadFiles[c]].raw, header)} :
     /\ loadRaw' = [loadRaw EXCEPT ![c] = res]
     /\ loadUsed' = [loadUsed EXCEPT ![c] = header]
     /\ alerts' = alerts \o res.alerts
     /\ warnings' = warnings \o res.warns
     /\ IF res.ret = "throw" \/ (res.ret = "data" /\ VisThrows(header))
        THEN /\ loadPc' = [loadPc EXCEPT ![c] = "rejected"]
             /\ UNCHANGED <<loadRet, sceneVars>>
        ELSE IF res.ret = "null"
        THEN /\ loadPc' = [loadPc EXCEPT ![c] = "then"]
             /\ UNCHANGED <<loadRet, sceneVars>>
        ELSE /\ nextId' = nextId + 1
             /\ points' = Append(points, createVisualization(res.data, header, nextId + 1))
             /\ scene' = scene \cup {nextId + 1}
             /\ loadRet' = [loadRet EXCEPT ![c] = nextId + 1]
             /\ loadPc' = [loadPc EXCEPT ![c] = "then"]
             /\ UNCHANGED importedVolumes
  /\ UNCHANGED <<header, loadFiles>>
  /\ UNCHANGED notLoad

\* the .then callback of loadMHD
LoadThen(c) ==
  /\ loadPc[c] = "then"
  /\ importedVolumes' = IF loadRet[c] # 0 THEN Append(importedVolumes, loadRet[c]) ELSE importedVolumes
  /\ loadPc' = [loadPc EXCEPT ![c] = "done"]
  /\ UNCHANGED <<header, loadFiles, loadRaw, loadUsed, loadRet, nextId, points, scene, logVars>>
  /\ UNCHANGED notLoad

\* reader.onerror of either file read: the promise of load rejects
ReadFailed(c) ==
  /\ loadPc[c] \in {"readText", "readBuffer"}
  /\ loadPc' = [loadPc EXCEPT ![c] = "rejected"]
  /\ UNCHANGED <<header, loadFiles, loadRaw, loadUsed, loadRet, sceneVars, logVars>>
  /\ UNCHANGED notLoad

NextLoad ==
  \/ \E c \in Calls, k \in DOMAIN FileLists : loadMHD(c, k)
  \/ \E c \in Calls : HeaderLoaded(c)
  \/ \E c \in Calls : BufferLoaded(c)
  \/ \E c \in Calls : LoadThen(c)
  \/ \E c \in Calls : ReadFailed(c)

SpecLoad == InitLoad /\ [][NextLoad]_vars

----------------------------------------------------------------------------
(* Import: properties (checked under SpecLoad) *)

Range(s) == {s[i] : i \in DOMAIN s}
\* call c has run parseRawData
Decoded(c) == loadRaw[c].ret # "none"
OwnHeader(c) == parseHeader(FileLists[loadFiles[c]].mhd)
OwnRaw(c) == FileLists[loadFiles[c]].raw
KnownTypes == {<<"M", "E", "T", "_", "U", "C", "H", "A", "R">>, <<"M", "E", "T", "_", "C", "H", "A", "R">>, <<"M", "E", "T", "_", "U", "S", "H", "O", "R", "T">>, <<"M", "E", "T", "_", "S", "H", "O", "R", "T">>,
               <<"M", "E", "T", "_", "U", "I", "N", "T">>, <<"M", "E", "T", "_", "I", "N", "T">>, <<"M", "E", "T", "_", "F", "L", "O", "A", "T">>, <<"M", "E", "T", "_", "D", "O", "U", "B", "L", "E">>}
\* byte width of the eight element types (spec section 4.2)
ByteWidth(type) ==
  CASE type \in {<<"M", "E", "T", "_", "U", "C", "H", "A", "R">>, <<"M", "E", "T", "_", "C", "H", "A", "R">>} -> 1
    [] type \in {<<"M", "E", "T", "_", "U", "S", "H", "O", "R", "T">>, <<"M", "E", "T", "_", "S", "H", "O", "R", "T">>} -> 2
    [] type = <<"M", "E", "T", "_", "D", "O", "U", "B", "L", "E">> -> 8
    [] OTHER -> 4
IsCount(a) == a.kind = "fin" /\ a.d = 1 /\ a.n >= 0
WellFormedDims(h) ==
  /\ HasKey(h, kDimSize)
  /\ Len(NumList(h[kDimSize])) = 3
  /\ \A i \in 1..3 : IsCount(NumList(h[kDimSize])[i])
DeclaredCount(h) ==
  LET d == NumList(h[kDimSize]) IN d[1].n * d[2].n * d[3].n

\* C1: when two load calls on the same handler are in flight at once, each
\* call decodes its raw payload and builds its visualization with the header
\* parsed from its own .mhd file, never with the header of the other call.
C1_EachLoadUsesOwnHeader ==
  \A c \in Calls :
    Decoded(c) =>
      /\ loadUsed[c] = OwnHeader(c)
      /\ loadRet[c] # 0 => points[loadRet[c]].header = OwnHeader(c)

\* C4: parseRawData called with a buffer shorter than expectedCount *
\* byteWidth (supported element type, well-formed DimSize) returns a result
\* grid together with a recorded warning, does not throw, and reads at no
\* byte offset at or past the end of the buffer.
ShortBuffer(c) ==
  /\ HGet(loadUsed[c], kElementType) \in KnownTypes
  /\ WellFormedDims(loadUsed[c])
  /\ Len(OwnRaw(c)) < DeclaredCount(loadUsed[c]) * ByteWidth(HGet(loadUsed[c], kElementType))
C4_ShortBufferYieldsGridAndWarning ==
  \A c \in Calls :
    (Decoded(c) /\ ShortBuffer(c)) =>
      /\ loadRaw[c].ret = "data"
      /\ loadRaw[c].warns # <<>>
      /\ loadRaw[c].reads * ByteWidth(HGet(loadUsed[c], kElementType)) <= Len(OwnRaw(c))

\* C5: parseRawData with an ElementType outside the eight known tokens (a
\* missing ElementType included) reports an unsupported-element-type error
\* and returns no grid; load then adds no volume to the scene or to
\* importedVolumes, and no element is read with a default byte width.
UnknownType(c) == HGet(loadUsed[c], kElementType) \notin KnownTypes
C5_UnknownTypeRejected ==
  \A c \in Calls :
    (Decoded(c) /\ UnknownType(c)) =>
      /\ loadRaw[c].ret = "null"
      /\ loadRaw[c].alerts = <<"Unsupported ElementType">>
      /\ loadRaw[c].reads = 0
      /\ loadRet[c] = 0
      /\ \A i \in scene \cup Range(importedVolumes) : \E d \in Calls \ {c} : loadRet[d] = i
\* both kinds of unknown type have been through a complete load
C5_Witness ==
  /\ \E c \in Calls : loadPc[c] = "done" /\ Decoded(c) /\ HGet(loadUsed[c], kElementType) = <<"M", "E", "T", "_", "U", "N", "K", "N", "O", "W", "N">>
  /\ \E c \in Calls : loadPc[c] = "done" /\ Decoded(c) /\ ~HasKey(loadUsed[c], kElementType)

\* C6: when a required geometry key is missing or malformed (DimSize,
\* ElementSpacing or Offset absent, or DimSize with fewer than three
\* integers), import ends in a reported format error with no grid and no
\* visualization; it never proceeds with a guessed or degenerate value.
MalformedGeometry(h) ==
  \/ ~HasKey(h, kDimSize) \/ ~HasKey(h, kElementSpacing) \/ ~HasKey(h, kOffset)
  \/ Len(NumList(h[kDimSize])) < 3
C6_MalformedGeometryRejected ==
  \A c \in Calls :
    (Decoded(c) /\ MalformedGeometry(loadUsed[c])) =>
      /\ loadRaw[c].ret # "data"
      /\ loadRet[c] = 0

\* C12: no core operation raises a user-facing alert; here the raw decode
\* (parseRawData) of every import has called window.alert zero times.
C12_CoreRaisesNoAlert == \A c \in Calls : loadRaw[c].alerts = <<>>

----------------------------------------------------------------------------
(* MHDHandler.parseHeader on header texts *)

MaxLines == 2

\* the lines header texts are made of: known and unknown keys, a repeated
\* key, values that contain "=" themselves, lines without "=", blank lines
HeaderLineInputs ==
  {<<"D", "i", "m", "S", "i", "z", "e", " ", "=", " ", "2", " ", "3", " ", "4">>, <<"D", "i", "m", "S", "i", "z", "e", " ", "=", " ", "1", " ", "1", " ", "1">>, <<"E", "l", "e", "m", "e", "n", "t", "T", "y", "p", "e", " ", "=", " ", "M", "E", "T", "_", "F", "L", "O", "A", "T">>,
   <<"C", "o", "m", "m", "e", "n", "t", " ", "=", " ", "a", "=", "b">>, <<"P", "a", "t", "h", "=", "C", ":", "\\", "d", "a", "t", "a", "\\", "x", "=", "1", ".", "r", "a", "w", " ">>, <<"N", "o", "S", "e", "p", "a", "r", "a", "t", "o", "r">>, <<" ", " ", " ">>, <<"C", "u", "s", "t", "o", "m", "=", "x">>}

HeaderTexts ==
  {<<>>} \cup HeaderLineInputs
         \cup {a \o CRLF \o b : a \in HeaderLineInputs, b \in HeaderLineInputs}

InitHeader ==
  /\ parsePc = "idle"
  /\ parseText \in {t \in HeaderTexts : Len(SplitLines(t)) <= MaxLines}
  /\ parseOut = EmptyHeader
  /\ LoadIdle /\ B64Idle /\ DoseIdle /\ ExportIdle /\ PersistIdle
  /\ HandoffIdle /\ GuiIdle /\ AssetIdle

\* parseHeader is applied to the text
ParseHeader ==
  /\ parsePc = "idle"
  /\ parsePc' = "parsed"
  /\ parseOut' = parseHeader(parseText)
  /\ UNCHANGED <<parseText, loadVars, sceneVars, logVars, b64Vars, doseVars, exportVars,
                 persistVars, handoffVars, gui, assetVars>>

NextHeader == ParseHeader

SpecHeader == InitHeader /\ [][NextHeader]_vars

\* the position of the first "=" of a line
FirstEq(line) == CHOOSE i \in 1..Len(line) : line[i] = "=" /\ \A j \in 1..(i - 1) : line[j] # "="
\* the lines that make an entry, in order
EntryLines(text) ==
  SelectSeq(SplitLines(text), LAMBDA l : Trim(l) # <<>> /\ \E i \in 1..Len(l) : l[i] = "=")
KeyAtFirstEq(line) == Trim(SubSeq(line, 1, FirstEq(line) - 1))
ValueAtFirstEq(line) == Trim(SubSeq(line, FirstEq(line) + 1, Len(line)))
\* the last line of the text that has key k
LastLineOf(text, k) ==
  LET e == EntryLines(text)
      at == {i \in 1..Len(e) : KeyAtFirstEq(e[i]) = k}
  IN e[CHOOSE i \in at : \A j \in at : j <= i]
SplitAtFirstEq(text) ==
  LET e == EntryLines(text)
      keys == {KeyAtFirstEq(e[i]) : i \in 1..Len(e)}
  IN [k \in keys |-> ValueAtFirstEq(LastLineOf(text, k))]

\* C13: parseHeader splits every non-blank line at its first "=" only: the
\* key is the trimmed text before it, the value the whole trimmed remainder
\* with any further "=", lines without "=" are skipped, unknown keys are
\* kept, and of two lines with one key the last one wins.
C13_SplitAtFirstEqualsOnly ==
  parsePc = "parsed" => parseOut = SplitAtFirstEq(parseText)

----------------------------------------------------------------------------
(* SceneSerializer: binary-to-text encoding of a volume's Float32Array *)

CHUNK_SIZE == 32768

B64Chars == <<"A", "B", "C", "D", "E", "F", "G", "H", "I", "J", "K", "L", "M", "N", "O", "P", "Q", "R", "S", "T", "U", "V", "W", "X", "Y", "Z", "a", "b", "c", "d", "e", "f", "g", "h", "i", "j", "k", "l", "m", "n", "o", "p", "q", "r", "s", "t", "u", "v", "w", "x", "y", "z", "0", "1", "2", "3", "4", "5", "6", "7", "8", "9", "+", "/">>
B64Index == [c \in Range(B64Chars) |-> (CHOOSE k \in 1..64 : B64Chars[k] = c) - 1]

\* window.btoa of a binary string, given as its character codes: three
\* bytes make four characters, the last group is padded with "="
BtoA(bin) ==
  LET n == Len(bin) IN
  [j \in 1..(4 * ((n + 2) \div 3)) |->
     LET g == 3 * ((j - 1) \div 4)
         b0 == bin[g + 1]
         b1 == IF g + 2 <= n THEN bin[g + 2] ELSE 0
         b2 == IF g + 3 <= n THEN bin[g + 3] ELSE 0
     IN CASE (j - 1) % 4 = 0 -> B64Chars[(b0 \div 4) + 1]
          [] (j - 1) % 4 = 1 -> B64Chars[(b0 % 4) * 16 + (b1 \div 16) + 1]
          [] (j - 1) % 4 = 2 -> IF g + 2 > n THEN "=" ELSE B64Chars[(b1 % 16) * 4 + (b2 \div 64) + 1]
          [] OTHER -> IF g + 3 > n THEN "=" ELSE B64Chars[(b2 % 64) + 1]]

\* window.atob (forgiving-base64 decode): whitespace is removed, one or two
\* "=" are dropped from a text whose length is a multiple of four, and a
\* length of 4k+1 or a character outside the alphabet is an
\* InvalidCharacterError.  The result is the binary string as character codes.
AtoB(text) ==
  LET ink == {i \in 1..Len(text) : ~IsWs(text[i])}
      t == IF Cardinality(ink) = Len(text) THEN text ELSE [k \in 1..Cardinality(ink) |-> text[KthOf(ink, k)]]
      pad == IF Len(t) % 4 = 0 /\ Len(t) > 0 /\ t[Len(t)] = "="
             THEN (IF t[Len(t) - 1] = "=" THEN 2 ELSE 1) ELSE 0
      L == Len(t) - pad
      valid == L % 4 # 1 /\ \A i \in 1..L : t[i] \in DOMAIN B64Index
  IN IF ~valid THEN [ok |-> FALSE, bin |-> <<>>]
     ELSE [ok |-> TRUE,
           bin |-> [j \in 1..((L * 6) \div 8) |->
              LET c == ((8 * (j - 1)) \div 6) + 1
                  r == (8 * (j - 1)) % 6
                  v0 == B64Index[t[c]]
                  v1 == B64Index[t[c + 1]]
              IN CASE r = 0 -> v0 * 4 + (v1 \div 16)
                   [] r = 2 -> (v0 % 16) * 16 + (v1 \div 4)
                   [] OTHER -> (v0 % 4) * 64 + v1]]

MinOf(a, b) == IF a < b THEN a ELSE b

\* the chunk loop of float32ToBase64 with the end of each chunk one byte short
RECURSIVE BinaryFrom_ShortChunk(_, _)
BinaryFrom_ShortChunk(u8, i) ==
  IF i >= Len(u8) THEN <<>>
  ELSE SubSeq(u8, i + 1, MinOf(i + CHUNK_SIZE - 1, Len(u8))) \o BinaryFrom_ShortChunk(u8, i + CHUNK_SIZE)

\* the chunk loop of float32ToBase64 (lines 449-451), from byte i on:
\* binary += String.fromCharCode.apply(null, uint8Array.subarray(i, i + CHUNK_SIZE))
RECURSIVE BinaryFrom(_, _)
BinaryFrom(u8, i) ==
  IF i >= Len(u8) THEN <<>>
  ELSE SubSeq(u8, i + 1, MinOf(i + CHUNK_SIZE, Len(u8))) \o BinaryFrom(u8, i + CHUNK_SIZE)

\* SceneSerializer.float32ToBase64: the Uint8Array view covers the whole
\* buffer of the array, which for the arrays the application makes is the
\* array itself
float32ToBase64(float32Array) == BtoA(BinaryFrom(float32Array, 0))

\* base64ToFloat32, were it to keep the whole floats of whatever atob yields
\* and to take a text atob rejects as empty
base64ToFloat32_Truncating(base64) ==
  LET bin == AtoB(base64) IN
  [ok |-> TRUE, arr |-> SubSeq(bin.bin, 1, 4 * (Len(bin.bin) \div 4))]

\* SceneSerializer.base64ToFloat32: new Float32Array(bytes.buffer) is a
\* RangeError unless the byte length is a multiple of 4; atob may throw too
base64ToFloat32(base64) ==
  LET bin == AtoB(base64) IN
  IF bin.ok /\ Len(bin.bin) % 4 = 0 THEN [ok |-> TRUE, arr |-> bin.bin]
  ELSE [ok |-> FALSE, arr |-> <<>>]

\* The arrays handed to the codec: every array of at most MaxSmallFloats
\* elements whose bytes are drawn from EdgeBytes, and arrays that end one
\* element past the first and the second chunk boundary and exactly on one.
MaxSmallFloats == 1
EdgeBytes == {0, 1, 128, 255}
LargeArray(nbytes, a, b) == [i \in 1..nbytes |-> (a * i + b) % 256]
B64Inputs ==
  UNION {[1..(4 * n) -> EdgeBytes] : n \in 0..MaxSmallFloats}
    \cup {F32FromValues(<<I(0), I(100)>>), F32FromValues(<<I(1), Fin(-5, 2), NaN>>)}
    \cup {LargeArray(CHUNK_SIZE, 1, 0), LargeArray(CHUNK_SIZE + 4, 7, 3),
          LargeArray(2 * CHUNK_SIZE + 4, 3, 1)}

InitB64 ==
  /\ b64Pc = "start"
  /\ b64In \in B64Inputs
  /\ b64Text = <<>>
  /\ b64Out = NoDecode
  /\ LoadIdle /\ DoseIdle /\ ExportIdle /\ PersistIdle
  /\ HandoffIdle /\ ParseIdle /\ GuiIdle /\ AssetIdle

\* serialize encodes the data of a volume
Encode ==
  /\ b64Pc = "start"
  /\ b64Text' = float32ToBase64(b64In)
  /\ b64Pc' = "encoded"
  /\ UNCHANGED <<b64In, b64Out>>
  /\ UNCHANGED notB64

\* deserialize decodes the dataBase64 of a saved volume
Decode ==
  /\ b64Pc = "encoded"
  /\ b64Out' = base64ToFloat32(b64Text)
  /\ b64Pc' = "decoded"
  /\ UNCHANGED <<b64In, b64Text>>
  /\ UNCHANGED notB64

NextB64 == Encode \/ Decode

SpecB64 == InitB64 /\ [][NextB64]_vars

\* C2: for every Float32Array a produced by import or by a previous load
\* (the empty array and arrays longer than one 0x8000-byte chunk included),
\* base64ToFloat32(float32ToBase64(a)) has the length of a and the same byte
\* pattern in every element.
C2_Base64RoundTrip ==
  b64Pc = "decoded" =>
    /\ b64Out.ok
    /\ F32Length(b64Out.arr) = F32Length(b64In)
    /\ b64Out.arr = b64In
\* an array that ends one element past the first chunk has been through the
\* round trip
C2_Witness == b64Pc = "decoded" /\ Len(b64In) = CHUNK_SIZE + 4

----------------------------------------------------------------------------
(* RadiationSceneManager: dose evaluation *)

\* the keys of the EasingFunctions table (lines 9-23)
EasingNames == {"Linear", "InSine", "OutSine", "InOutSine", "InQuad", "OutQuad", "InOutQuad",
                "InCubic", "OutCubic", "InExpo", "OutExpo", "InCirc", "OutCirc"}
NOne == I(1)
Sq(a) == NMul(a, a)
Cube(a) == NMul(a, NMul(a, a))
\* EasingFunctions[name](t) for the polynomial curves.  The sine, exponential
\* and circular curves have no exact rational value; no source of this
\* model uses them, and the CHOOSE fails if one were evaluated.
EasingFunctions(name, t) ==
  CASE name = "Linear" -> t
    [] name = "InQuad" -> Sq(t)
    [] name = "OutQuad" -> NSub(NOne, Sq(NSub(NOne, t)))
    [] name = "InOutQuad" ->
         IF NLt(t, Fin(1, 2)) THEN NMul(I(2), Sq(t))
         ELSE NSub(NOne, NDiv(Sq(NAdd(NMul(I(-2), t), I(2))), I(2)))
    [] name = "InCubic" -> Cube(t)
    [] name = "OutCubic" -> NSub(NOne, Cube(NSub(NOne, t)))
    [] OTHER -> CHOOSE x \in {} : TRUE

\* (EasingFunctions[falloff] || EasingFunctions.Linear)(t)
Easing(falloff, t) ==
  IF falloff \in EasingNames THEN EasingFunctions(falloff, t) ELSE EasingFunctions("Linear", t)

\* Vector3.distanceToSquared
distanceToSquared(p, q) ==
  NAdd(NAdd(Sq(NSub(p.x, q.x)), Sq(NSub(p.y, q.y))), Sq(NSub(p.z, q.z)))

\* floor of the square root of a natural number (Newton iteration)
RECURSIVE ISqrtFrom(_, _)
ISqrtFrom(n, x) ==
  LET y == (x + (n \div x)) \div 2 IN IF y >= x THEN x ELSE ISqrtFrom(n, y)
ISqrt(n) == IF n = 0 THEN 0 ELSE ISqrtFrom(n, n)
IsSquare(a) == a.kind = "fin" /\ a.n >= 0 /\ ISqrt(a.n) * ISqrt(a.n) = a.n /\ ISqrt(a.d) * ISqrt(a.d) = a.d
\* Math.sqrt of a square of a rational; the CHOOSE fails on any other number
SqrtExact(a) == IF IsSquare(a) THEN Fin(ISqrt(a.n), ISqrt(a.d)) ELSE CHOOSE x \in {} : TRUE
\* Math.sqrt(d2) <= r, decided on the squares (d2 is finite and >= 0)
SqrtLe(d2, r0) == LET r == ToNum(r0) IN
  CASE r.kind = "inf" -> TRUE
    [] r.kind = "fin" -> r.n >= 0 /\ NLe(d2, Sq(r))
    [] OTHER -> FALSE
\* Math.sqrt(d2) < r
SqrtLt(d2, r0) == LET r == ToNum(r0) IN
  CASE r.kind = "inf" -> TRUE
    [] r.kind = "fin" -> r.n > 0 /\ NLt(d2, Sq(r))
    [] OTHER -> FALSE

\* the body of the loop with the boundary d = r left outside the source
SourceDose_StrictInside(point, s) ==
  LET d2 == distanceToSquared(point, s.worldPosition)
      r == s.data.scale
  IN IF SqrtLt(d2, r)
     THEN LET t == NDiv(SqrtExact(d2), r)
              alpha == Easing(s.data.falloff, t)
          IN NAdd(NMul(NSub(NOne, alpha), s.data.doseCenter), NMul(alpha, s.data.dosePeriphery))
     ELSE I(0)

\* the body of the loop of calculateDoseAtPoint (lines 445-452): what source
\* s adds to totalDose; r is s.data.mesh.scale.x
SourceDose(point, s) ==
  LET d2 == distanceToSquared(point, s.worldPosition)
      r == s.data.scale
  IN IF SqrtLe(d2, r)
     THEN LET t == NDiv(SqrtExact(d2), r)
              alpha == Easing(s.data.falloff, t)
          IN NAdd(NMul(NSub(NOne, alpha), s.data.doseCenter), NMul(alpha, s.data.dosePeriphery))
     ELSE I(0)

\* RadiationSceneManager.calculateDoseAtPoint
RECURSIVE DoseLoop(_, _, _, _)
DoseLoop(point, worldSources, i, totalDose) ==
  IF i > Len(worldSources) THEN totalDose
  ELSE DoseLoop(point, worldSources, i + 1, NAdd(totalDose, SourceDose(point, worldSources[i])))
calculateDoseAtPoint(point, worldSources) == DoseLoop(point, worldSources, 1, I(0))

\* A source as addSource, the GUI and deserialize leave it: mesh.scale.x is
\* the radius.  deserialize takes the radius from the scene file unchecked,
\* so a radius of zero or below is a state the program can be in.
Source(pos, radius, doseCenter, dosePeriphery, falloff) ==
  [data |-> [radius |-> radius, scale |-> radius, doseCenter |-> doseCenter,
             dosePeriphery |-> dosePeriphery, falloff |-> falloff],
   worldPosition |-> pos]
ExampleSource == Source(Vec(I(10), I(0), I(0)), I(10), I(100), I(0), "Linear")
SourceInputs == {
  ExampleSource,
  Source(Vec(I(0), I(0), I(0)), I(10), I(50), I(10), "InQuad"),
  Source(Vec(I(10), I(0), I(0)), I(20), I(80), I(20), "OutCubic"),
  Source(Vec(I(10), I(4), I(0)), I(5), I(40), I(8), "InOutQuad"),
  Source(Vec(I(20), I(0), I(0)), Fin(5, 2), I(1000), I(0), "OutQuad"),
  Source(Vec(I(0), I(0), I(0)), I(12), I(60), I(12), "InCubic"),
  Source(Vec(I(10), I(0), I(0)), I(0), I(100), I(10), "Linear"),
  Source(Vec(I(0), I(0), I(0)), I(-5), I(100), I(10), "Linear"),
  \* a falloff name that is no key of EasingFunctions, as a scene file can set it
  Source(Vec(I(0), I(0), I(0)), I(10), I(100), I(0), "Bounce") }
PointInputs == {Vec(I(0), I(0), I(0)), Vec(I(10), I(0), I(0)), Vec(I(20), I(0), I(0)),
                Vec(I(13), I(4), I(0)), Vec(I(5), I(0), I(0))}

MaxSources == 2
SourceLists == UNION {[1..n -> SourceInputs] : n \in 0..MaxSources}

InitDose ==
  /\ dosePc = "start"
  /\ dosePoint \in PointInputs
  /\ doseSources \in SourceLists
  /\ doseResult = I(0)
  /\ LoadIdle /\ B64Idle /\ ExportIdle /\ PersistIdle
  /\ HandoffIdle /\ ParseIdle /\ GuiIdle /\ AssetIdle

\* the dose at one lattice point is evaluated
EvaluateDose ==
  /\ dosePc = "start"
  /\ doseResult' = calculateDoseAtPoint(dosePoint, doseSources)
  /\ dosePc' = "done"
  /\ UNCHANGED <<dosePoint, doseSources>>
  /\ UNCHANGED notDose

\* the next lattice point of the same export is evaluated
NextPoint ==
  /\ dosePc = "done"
  /\ \E p \in PointInputs :
       /\ p # dosePoint
       /\ dosePoint' = p
       /\ doseResult' = calculateDoseAtPoint(p, doseSources)
  /\ UNCHANGED <<dosePc, doseSources>>
  /\ UNCHANGED notDose

NextDose == EvaluateDose \/ NextPoint

SpecDose == InitDose /\ [][NextDose]_vars

\* The contribution of one source as the specification states it: zero at a
\* distance d > r, and (1 - f(d/r)) * doseCenter + f(d/r) * dosePeriphery at
\* d <= r, the boundary included.
Contribution(point, s) ==
  LET d2 == distanceToSquared(point, s.worldPosition)
      r == s.data.radius
  IN IF NGt(d2, Sq(r)) THEN I(0)
     ELSE LET f == Easing(s.data.falloff, NDiv(SqrtExact(d2), r))
          IN NAdd(NMul(NSub(NOne, f), s.data.doseCenter), NMul(f, s.data.dosePeriphery))
\* the sum of the contributions, taken from the last source to the first
RECURSIVE SumContributions(_, _)
SumContributions(point, srcs) ==
  IF srcs = <<>> THEN I(0)
  ELSE NAdd(Contribution(point, srcs[Len(srcs)]), SumContributions(point, SubSeq(srcs, 1, Len(srcs) - 1)))
PositiveRadius(s) == NGt(s.data.radius, I(0))

\* C7: a source whose radius is zero or negative contributes nothing at
\* every point, the point that coincides with the source position included:
\* the total dose is the sum over the other sources and is never NaN.
C7_DegenerateSourceExcluded ==
  dosePc = "done" =>
    /\ ~IsNaN(doseResult)
    /\ doseResult = SumContributions(dosePoint, SelectSeq(doseSources, PositiveRadius))

\* C8: for every point and every list of sources with positive radius,
\* calculateDoseAtPoint returns the sum of the independent contributions of
\* the sources (zero at d > r, the interpolation at d <= r), uncapped and
\* whatever the order of the sources; the Linear source of center 100,
\* periphery 0 and radius 10 at (10,0,0) gives [0, 100, 0] at x = 0, 10, 20.
C8_DoseIsSumOfContributions ==
  (dosePc = "done" /\ \A i \in DOMAIN doseSources : PositiveRadius(doseSources[i])) =>
    /\ doseResult = SumContributions(dosePoint, doseSources)
    /\ doseResult = calculateDoseAtPoint(dosePoint, Reverse(doseSources))
    /\ doseSources = <<ExampleSource>> =>
         /\ dosePoint = Vec(I(0), I(0), I(0)) => doseResult = I(0)
         /\ dosePoint = Vec(I(10), I(0), I(0)) => doseResult = I(100)
         /\ dosePoint = Vec(I(20), I(0), I(0)) => doseResult = I(0)
\* two sources of positive radius overlap at the point, one of them reaching
\* it exactly on its boundary, and the total exceeds both center doses
C8_Witness ==
  /\ dosePc = "done"
  /\ Len(doseSources) = 2
  /\ \A i \in 1..2 : PositiveRadius(doseSources[i])
  /\ \E i \in 1..2 : distanceToSquared(dosePoint, doseSources[i].worldPosition) = Sq(doseSources[i].data.radius)
  /\ \A i \in 1..2 : NGt(doseResult, doseSources[i].data.doseCenter)

UnknownFalloff(s) == s.data.falloff \notin EasingNames
Covers(s, point) == SqrtLe(distanceToSquared(point, s.worldPosition), s.data.scale)
AsLinear(srcs) ==
  [i \in 1..Len(srcs) |-> IF UnknownFalloff(srcs[i])
                           THEN [srcs[i] EXCEPT !.data.falloff = "Linear"] ELSE srcs[i]]

\* C16: the falloff is resolved by a total match over the thirteen kinds with
\* no fallback: when a source whose falloff name is none of them covers the
\* point, the dose is not the one obtained by using Linear in its place.
C16_UnknownFalloffNeverLinear ==
  (/\ dosePc = "done"
   /\ \E i \in 1..Len(doseSources) : UnknownFalloff(doseSources[i]) /\ Covers(doseSources[i], dosePoint))
  => doseResult # calculateDoseAtPoint(dosePoint, AsLinear(doseSources))

----------------------------------------------------------------------------
(* RadiationSceneManager: export of the dose grid *)

\* the grid of exportGateFiles in editor order: no axis is exchanged
GateGrid_EditorOrder(conf) ==
  LET dimGateX == Floor(conf.voxelResolution.x)
      dimGateY == Floor(conf.voxelResolution.y)
      dimGateZ == Floor(conf.voxelResolution.z)
  IN [dimGateX |-> dimGateX, dimGateY |-> dimGateY, dimGateZ |-> dimGateZ,
      spacingX |-> NDiv(conf.domainSize.x, dimGateX),
      spacingY |-> NDiv(conf.domainSize.y, dimGateY),
      spacingZ |-> NDiv(conf.domainSize.z, dimGateZ),
      totalVoxels |-> NMul(NMul(dimGateX, dimGateY), dimGateZ)]

\* exportGateFiles, lines 460-468: the grid in GATE order
GateGrid(conf) ==
  LET dimGateX == Floor(conf.voxelResolution.x)
      dimGateY == Floor(conf.voxelResolution.z)
      dimGateZ == Floor(conf.voxelResolution.y)
  IN [dimGateX |-> dimGateX, dimGateY |-> dimGateY, dimGateZ |-> dimGateZ,
      spacingX |-> NDiv(conf.domainSize.x, dimGateX),
      spacingY |-> NDiv(conf.domainSize.z, dimGateY),
      spacingZ |-> NDiv(conf.domainSize.y, dimGateZ),
      totalVoxels |-> NMul(NMul(dimGateX, dimGateY), dimGateZ)]

\* the lattice point with the loops over j and k exchanged
ExportWorldPos_SwappedLoops(conf, idx) ==
  LET g == GateGrid(conf)
      nx == LoopCount(g.dimGateX)
      nz == LoopCount(g.dimGateZ)
      i == idx % nx
      k == (idx \div nx) % nz
      j == idx \div (nx * nz)
  IN Vec(NAdd(conf.offset.x, NMul(I(i), g.spacingX)),
         NAdd(conf.offset.y, NMul(I(k), g.spacingZ)),
         NAdd(conf.offset.z, NMul(I(j), g.spacingY)))

\* The loops of exportGateFiles (lines 482-492):
\*   for k < dimGateZ, for j < dimGateY, for i < dimGateX: buffer[idx++] = ...
\* so iteration idx has i = idx mod nx, j = (idx div nx) mod ny and
\* k = idx div (nx * ny); worldPos is the point the dose is evaluated at.
ExportWorldPos(conf, idx) ==
  LET g == GateGrid(conf)
      nx == LoopCount(g.dimGateX)
      ny == LoopCount(g.dimGateY)
      i == idx % nx
      j == (idx \div nx) % ny
      k == idx \div (nx * ny)
  IN Vec(NAdd(conf.offset.x, NMul(I(i), g.spacingX)),
         NAdd(conf.offset.y, NMul(I(k), g.spacingZ)),
         NAdd(conf.offset.z, NMul(I(j), g.spacingY)))

\* the Float32Array filled by the loops: a store past its end is dropped and
\* an element never stored stays 0
ExportBuffer(conf, worldSources) ==
  LET g == GateGrid(conf)
      stored == LoopCount(g.dimGateX) * LoopCount(g.dimGateY) * LoopCount(g.dimGateZ)
      length == AllocLength(g.totalVoxels)
  IN F32FromValues([n \in 1..length |->
       IF n <= stored THEN calculateDoseAtPoint(ExportWorldPos(conf, n - 1), worldSources) ELSE I(0)])

\* `${a} ${b} ${c}`
Triple(a, b, c) == NumToStr(a) \o <<" ">> \o NumToStr(b) \o <<" ">> \o NumToStr(c)

\* mhdContent (lines 495-502)
MhdContent(conf) ==
  LET g == GateGrid(conf) IN
  Join(<<<<"O", "b", "j", "e", "c", "t", "T", "y", "p", "e", " ", "=", " ", "I", "m", "a", "g", "e">>, <<"N", "D", "i", "m", "s", " ", "=", " ", "3">>, <<"B", "i", "n", "a", "r", "y", "D", "a", "t", "a", " ", "=", " ", "T", "r", "u", "e">>,
         <<"B", "i", "n", "a", "r", "y", "D", "a", "t", "a", "B", "y", "t", "e", "O", "r", "d", "e", "r", "M", "S", "B", " ", "=", " ", "F", "a", "l", "s", "e">>,
         <<"T", "r", "a", "n", "s", "f", "o", "r", "m", "M", "a", "t", "r", "i", "x", " ", "=", " ", "1", " ", "0", " ", "0", " ", "0", " ", "1", " ", "0", " ", "0", " ", "0", " ", "1">>,
         <<"O", "f", "f", "s", "e", "t", " ", "=", " ">> \o Triple(conf.offset.x, conf.offset.z, conf.offset.y),
         <<"E", "l", "e", "m", "e", "n", "t", "S", "p", "a", "c", "i", "n", "g", " ", "=", " ">> \o Triple(g.spacingX, g.spacingY, g.spacingZ),
         <<"D", "i", "m", "S", "i", "z", "e", " ", "=", " ">> \o Triple(g.dimGateX, g.dimGateY, g.dimGateZ),
         <<"E", "l", "e", "m", "e", "n", "t", "T", "y", "p", "e", " ", "=", " ", "M", "E", "T", "_", "F", "L", "O", "A", "T">>,
         <<"E", "l", "e", "m", "e", "n", "t", "D", "a", "t", "a", "F", "i", "l", "e", " ", "=", " ", "s", "i", "m", "u", "l", "a", "t", "i", "o", "n", "-", "D", "o", "s", "e", ".", "r", "a", "w">>>>, CRLF)

\* RadiationSceneManager.exportGateFiles: the two downloads
exportGateFiles(conf, srcs) ==
  [raw |-> ExportBuffer(conf, srcs), mhd |-> MhdContent(conf)]

\* Domain and resolution as the GUI or a scene file set them, the resolution
\* an integer count from 1: the scenario of the specification, grids whose three axes differ
\* in count and in spacing, and a single voxel.  Every spacing is a
\* terminating decimal, so that its text and its value are exact.
GridInputs == {
  [domainSize |-> Vec(I(100), I(50), I(100)), voxelResolution |-> Vec(I(10), I(5), I(10))],
  [domainSize |-> Vec(I(8), I(3), I(10)), voxelResolution |-> Vec(I(2), I(3), I(4))],
  [domainSize |-> Vec(I(8), I(3), I(10)), voxelResolution |-> Vec(I(1), I(1), I(1))],
  [domainSize |-> Vec(I(100), I(50), I(100)), voxelResolution |-> Vec(I(2), I(1), I(4))],
  [domainSize |-> Vec(I(8), I(3), I(10)), voxelResolution |-> Vec(I(4), I(2), I(1))],
  [domainSize |-> Vec(I(100), I(50), I(100)), voxelResolution |-> Vec(I(1), I(2), I(5))] }
OffsetInputs == {Vec(I(0), I(0), I(0)), Vec(I(1), I(2), I(3)), Vec(I(-50), I(-25), I(-100))}
\* Sources as the user places them with the transform gizmo.  Each sits on
\* a cell of the editor's dose box, (a, b, c) cells from its origin along
\* the editor axes, with a radius of at most 5/4 of the smallest cell size:
\* the lattice points it covers are then its own cell and cells next to it
\* along one axis, at distances with an exact value.
Min2(a, b) == IF NLe(a, b) THEN a ELSE b
CellSize(conf) == Vec(NDiv(conf.domainSize.x, conf.voxelResolution.x),
                      NDiv(conf.domainSize.y, conf.voxelResolution.y),
                      NDiv(conf.domainSize.z, conf.voxelResolution.z))
MinCell(conf) == Min2(CellSize(conf).x, Min2(CellSize(conf).y, CellSize(conf).z))
CellPoint(conf, a, b, c) ==
  Vec(NAdd(conf.offset.x, NMul(Min2(I(a), NSub(conf.voxelResolution.x, I(1))), CellSize(conf).x)),
      NAdd(conf.offset.y, NMul(Min2(I(b), NSub(conf.voxelResolution.y, I(1))), CellSize(conf).y)),
      NAdd(conf.offset.z, NMul(Min2(I(c), NSub(conf.voxelResolution.z, I(1))), CellSize(conf).z)))
ExportSourceA(conf) == Source(CellPoint(conf, 0, 0, 0), MinCell(conf), I(100), I(10), "Linear")
ExportSourceB(conf) == Source(CellPoint(conf, 1, 2, 3), NMul(Fin(5, 4), MinCell(conf)), I(100), I(50), "InQuad")
ExportSourceFar(conf) == Source(Vec(I(-1000), I(-1000), I(-1000)), I(1), I(100), I(50), "OutCubic")
ExportSourceLists(conf) ==
  {<<>>, <<ExportSourceA(conf)>>, <<ExportSourceB(conf)>>,
   <<ExportSourceA(conf), ExportSourceB(conf)>>, <<ExportSourceFar(conf), ExportSourceB(conf)>>}

InitExport ==
  /\ exportPc = "start"
  /\ \E g \in GridInputs, o \in OffsetInputs :
       simulationConfig = [domainSize |-> g.domainSize, voxelResolution |-> g.voxelResolution, offset |-> o]
  /\ sources \in ExportSourceLists(simulationConfig)
  /\ exported = [raw |-> <<>>, mhd |-> <<>>]
  /\ reimported = [header |-> EmptyHeader, raw |-> NoRaw, vis |-> <<>>]
  /\ LoadIdle /\ B64Idle /\ DoseIdle /\ PersistIdle
  /\ HandoffIdle /\ ParseIdle /\ GuiIdle /\ AssetIdle

\* the Export button: the payload is downloaded, the header text is held by
\* the 500 ms timer
ExportGateFiles ==
  /\ exportPc = "start"
  /\ exported' = exportGateFiles(simulationConfig, sources)
  /\ exportPc' = "timer"
  /\ UNCHANGED <<simulationConfig, sources, reimported>>
  /\ UNCHANGED notExport

\* the timer fires: the header file is downloaded
MhdDownloaded ==
  /\ exportPc = "timer"
  /\ exportPc' = "exported"
  /\ UNCHANGED <<simulationConfig, sources, exported, reimported>>
  /\ UNCHANGED notExport

\* the exported pair is read back: parseHeader, then parseRawData
ParseExported ==
  /\ exportPc = "exported"
  /\ \E h \in {parseHeader(exported.mhd)} :
       reimported' = [header |-> h, raw |-> parseRawData(exported.raw, h), vis |-> <<>>]
  /\ exportPc' = "parsed"
  /\ UNCHANGED <<simulationConfig, sources, exported>>
  /\ UNCHANGED notExport

\* the decoded grid is laid out by createVisualization
ShowExported ==
  /\ exportPc = "parsed"
  /\ reimported.raw.ret = "data"
  /\ ~VisThrows(reimported.header)
  /\ reimported' = [header |-> reimported.header, raw |-> reimported.raw,
                    vis |-> <<createVisualization(reimported.raw.data, reimported.header, 1)>>]
  /\ exportPc' = "shown"
  /\ UNCHANGED <<simulationConfig, sources, exported>>
  /\ UNCHANGED notExport

NextExport == ExportGateFiles \/ MhdDownloaded \/ ParseExported \/ ShowExported

SpecExport == InitExport /\ [][NextExport]_vars

Res == simulationConfig.voxelResolution
Size == simulationConfig.domainSize
Off == simulationConfig.offset
VoxelCount == Res.x.n * Res.y.n * Res.z.n
HeaderLines(text) == Range(SplitLines(text))

\* C9: exportGateFiles writes the header triples in target-format order, the
\* second and third editor axes exchanged: DimSize = (res.x, res.z, res.y),
\* ElementSpacing = (size.x/res.x, size.z/res.z, size.y/res.y), Offset =
\* (off.x, off.z, off.y); the payload holds exactly res.x * res.y * res.z
\* values; domainSize (100,50,100) with voxelCount (10,5,10) gives the
\* spacing (10,10,10) and 500 values.
C9_HeaderTriplesInTargetOrder ==
  exportPc \in {"timer", "exported"} =>
    LET h == parseHeader(exported.mhd) IN
    /\ HasKey(h, kDimSize) /\ HasKey(h, kElementSpacing) /\ HasKey(h, kOffset)
    /\ NumList(h[kDimSize]) = <<Res.x, Res.z, Res.y>>
    /\ NumList(h[kElementSpacing]) = <<NDiv(Size.x, Res.x), NDiv(Size.z, Res.z), NDiv(Size.y, Res.y)>>
    /\ NumList(h[kOffset]) = <<Off.x, Off.z, Off.y>>
    /\ Len(exported.raw) = 4 * VoxelCount
    /\ (Size = Vec(I(100), I(50), I(100)) /\ Res = Vec(I(10), I(5), I(10))) =>
         /\ <<"E", "l", "e", "m", "e", "n", "t", "S", "p", "a", "c", "i", "n", "g", " ", "=", " ", "1", "0", " ", "1", "0", " ", "1", "0">> \in HeaderLines(exported.mhd)
         /\ <<"D", "i", "m", "S", "i", "z", "e", " ", "=", " ", "1", "0", " ", "1", "0", " ", "5">> \in HeaderLines(exported.mhd)
         /\ F32Length(exported.raw) = 500
\* a grid whose three axes differ in count and in spacing has been exported
\* from an offset whose three components differ
C9_Witness ==
  /\ exportPc = "exported"
  /\ Res = Vec(I(2), I(3), I(4))
  /\ Off = Vec(I(1), I(2), I(3))
  /\ <<"D", "i", "m", "S", "i", "z", "e", " ", "=", " ", "2", " ", "4", " ", "3">> \in HeaderLines(exported.mhd)
  /\ <<"E", "l", "e", "m", "e", "n", "t", "S", "p", "a", "c", "i", "n", "g", " ", "=", " ", "4", " ", "2", ".", "5", " ", "1">> \in HeaderLines(exported.mhd)
  /\ <<"O", "f", "f", "s", "e", "t", " ", "=", " ", "1", " ", "3", " ", "2">> \in HeaderLines(exported.mhd)
  /\ F32Length(exported.raw) = 24

\* the visualization of the exported pair
Vis == reimported.vis[1]
PointOf(p) == Vec(p[1], p[2], p[3])
RoundedPos(v) == <<F32Round(v.x), F32Round(v.y), F32Round(v.z)>>

\* C10: export and import agree on linearization and axis mapping: the
\* exported header and payload are parsed without an error, and after
\* parseHeader, parseRawData and createVisualization the value at every
\* linear index n is the exported value and sits at the editor-space
\* position (x, y, z) at which exportGateFiles evaluated the dose for n.
C10_ExportImportAgree ==
  /\ exportPc = "parsed" =>
       /\ reimported.raw.ret = "data"
       /\ reimported.raw.alerts = <<>> /\ reimported.raw.warns = <<>>
       /\ ~VisThrows(reimported.header)
  /\ exportPc = "shown" =>
       /\ F32Length(Vis.data) = VoxelCount
       /\ Len(Vis.positions) = VoxelCount
       /\ Vis.data = exported.raw
       /\ \A n \in 0..(VoxelCount - 1) :
            /\ Vis.positions[n + 1] = RoundedPos(ExportWorldPos(simulationConfig, n))
            /\ F32Get(Vis.data, n) = F32Round(calculateDoseAtPoint(PointOf(Vis.positions[n + 1]), sources))
\* a grid whose three axes differ in count and in spacing, holding voxels
\* inside and outside a source, has been exported and laid out again
C10_Witness ==
  /\ exportPc = "shown"
  /\ Res = Vec(I(2), I(3), I(4))
  /\ \E n \in 0..(VoxelCount - 1) : NGt(F32Get(Vis.data, n), I(0))
  /\ \E n \in 0..(VoxelCount - 1) : F32Get(Vis.data, n) = I(0)

----------------------------------------------------------------------------
(* RadiationSceneManager: the Voxel Domain folder *)

\* A small voxel domain, as the Size, Res and Offset controllers can set it
\* (sizes from 100, counts from 1 in steps of 1).
SmallConfig == [domainSize |-> Vec(I(120), I(120), I(120)),
                voxelResolution |-> Vec(I(1), I(1), I(1)),
                offset |-> Vec(I(0), I(0), I(0))]

\* the values the controllers are moved to: <<object, axis, value>>
GuiEdits == {<<"voxelResolution", "y", I(2)>>, <<"voxelResolution", "z", I(4)>>,
             <<"domainSize", "x", I(240)>>, <<"offset", "z", I(10)>>}

\* A controller of the folder is moved (initGUI, lines 159-167): the value
\* is written to the object the controller was created on, then onChange
\* runs updateDoseBoxVisual on manager.simulationConfig.
GuiSet(e) ==
  /\ simulationConfig' = IF gui.linked
                         THEN [simulationConfig EXCEPT ![e[1]][e[2]] = e[3]]
                         ELSE simulationConfig
  /\ gui' = [linked |-> gui.linked, edit |-> <<e>>, box |-> BoxOf(simulationConfig')]

----------------------------------------------------------------------------
(* RadiationSceneManager: the hand-off of the two exported files *)

MaxExports == 2
\* the controllers moved between two exports
HandoffEdits == {<<"voxelResolution", "y", I(2)>>, <<"offset", "z", I(10)>>}
rawFileName == <<"s", "i", "m", "u", "l", "a", "t", "i", "o", "n", "-", "D", "o", "s", "e", ".", "r", "a", "w">>
mhdFileName == <<"s", "i", "m", "u", "l", "a", "t", "i", "o", "n", "-", "D", "o", "s", "e", ".", "m", "h", "d">>

\* the text a timer downloads, were the header text shared by all calls and
\* overwritten by the latest one
TimerContent_LatestCall(call, conf) == exportCalls[Len(exportCalls)].mhdContent

\* the text the timer of a call downloads: the mhdContent its closure holds
\* (line 506)
TimerContent(call, conf) == call.mhdContent

InitHandoff ==
  /\ exportCalls = <<>>
  /\ downloads = <<>>
  /\ exportPc = "idle"
  /\ simulationConfig = SmallConfig
  /\ sources \in {<<>>, <<ExampleSource>>}
  /\ exported = [raw |-> <<>>, mhd |-> <<>>]
  /\ reimported = [header |-> EmptyHeader, raw |-> NoRaw, vis |-> <<>>]
  /\ GuiIdle
  /\ LoadIdle /\ B64Idle /\ DoseIdle /\ PersistIdle /\ ParseIdle /\ AssetIdle

HandoffUnchanged ==
  UNCHANGED <<loadVars, sceneVars, logVars, b64Vars, doseVars, persistVars, parseVars, assetVars,
              exportPc, sources, exported, reimported>>

\* the Export button: exportGateFiles downloads the payload and starts the
\* timer that holds the header text
StartExport ==
  /\ Len(exportCalls) < MaxExports
  /\ \E out \in {exportGateFiles(simulationConfig, sources)} :
       /\ downloads' = Append(downloads, [call |-> Len(exportCalls) + 1, name |-> rawFileName,
                                          content |-> out.raw])
       /\ exportCalls' = Append(exportCalls, [timer |-> "pending", mhdContent |-> out.mhd,
                                              conf |-> simulationConfig])
  /\ UNCHANGED <<simulationConfig, gui>>
  /\ HandoffUnchanged

\* the timer of call c fires; timers of equal delay fire in the order in
\* which they were started
TimerFires(c) ==
  /\ c \in DOMAIN exportCalls
  /\ exportCalls[c].timer = "pending"
  /\ \A b \in 1..(c - 1) : exportCalls[b].timer = "fired"
  /\ downloads' = Append(downloads, [call |-> c, name |-> mhdFileName,
                                     content |-> TimerContent(exportCalls[c], simulationConfig)])
  /\ exportCalls' = [exportCalls EXCEPT ![c].timer = "fired"]
  /\ UNCHANGED <<simulationConfig, gui>>
  /\ HandoffUnchanged

\* a controller of the Voxel Domain folder is moved between two exports
EditDomain(e) ==
  /\ GuiSet(e)
  /\ UNCHANGED <<exportCalls, downloads>>
  /\ HandoffUnchanged

NextHandoff ==
  \/ StartExport
  \/ \E c \in 1..MaxExports : TimerFires(c)
  \/ \E e \in HandoffEdits : EditDomain(e)

SpecHandoff ==
  /\ InitHandoff
  /\ [][NextHandoff]_vars
  /\ \A c \in 1..MaxExports : WF_vars(TimerFires(c))

\* the files call c has handed off so far
FilesOf(c) == SelectSeq(downloads, LAMBDA d : d.call = c)
HeaderOf(text) == parseHeader(text)
DimProduct(h) == LET d == NumList(h[kDimSize]) IN d[1].n * d[2].n * d[3].n
\* the header file belongs to the payload of call c
Companion(c, raw, mhd) ==
  /\ raw.name = rawFileName
  /\ mhd.name = mhdFileName
  /\ HGet(HeaderOf(mhd.content), kElementDataFile) = raw.name
  /\ mhd.content = MhdContent(exportCalls[c].conf)
  /\ Len(raw.content) = 4 * DimProduct(HeaderOf(mhd.content))
HandedOff(c) ==
  /\ Len(FilesOf(c)) = 2
  /\ Companion(c, FilesOf(c)[1], FilesOf(c)[2])
HandoffInOrder ==
  \A c \in DOMAIN exportCalls :
    /\ Len(FilesOf(c)) \in {1, 2}
    /\ FilesOf(c)[1].name = rawFileName
    /\ FilesOf(c)[1].content = ExportBuffer(exportCalls[c].conf, sources)
    /\ Len(FilesOf(c)) = 2 => HandedOff(c)

\* C11: every exportGateFiles call hands off exactly two files: first the
\* payload simulation-Dose.raw and, once its timer has fired, the header
\* simulation-Dose.mhd whose ElementDataFile names the payload and whose
\* DimSize, ElementSpacing and Offset are those the payload of the same call
\* was computed with, also when the domain is edited or another export is
\* started before the timer fires.
C11_ExportHandsOffTwoFiles ==
  /\ []HandoffInOrder
  /\ \A c \in 1..MaxExports : (c \in DOMAIN exportCalls) ~> [](c \in DOMAIN exportCalls /\ HandedOff(c))
\* two exports were started before the first timer fired, with the domain
\* edited in between, and both have handed off their two files
C11_Witness ==
  /\ Len(exportCalls) = 2
  /\ Len(downloads) = 4
  /\ exportCalls[1].conf # exportCalls[2].conf
  /\ [i \in 1..4 |-> downloads[i].call] = <<1, 2, 1, 2>>
  /\ HandedOff(1) /\ HandedOff(2)

----------------------------------------------------------------------------
(* SceneSerializer: saving and loading a scene *)

JsonNull == [kind |-> "null", n |-> 0, d |-> 1]
\* A number through JSON.stringify and JSON.parse: a finite number is
\* written as its decimal text and read back, NaN and the infinities are
\* written as null.
JsonNumber(a) == IF a.kind = "fin" THEN StrToNumber(NumToStr(a)) ELSE JsonNull
JsonVec(v) == Vec(JsonNumber(v.x), JsonNumber(v.y), JsonNumber(v.z))
JsonParams(p) ==
  [minThreshold |-> JsonNumber(p.minThreshold), maxThreshold |-> JsonNumber(p.maxThreshold),
   pointSize |-> JsonNumber(p.pointSize), visible |-> p.visible]
\* a value that is false in a condition
Falsy(a) == a.kind \in {"nan", "undef", "null"} \/ a = I(0)

\* SceneSerializer.serialize, as the value JSON.parse makes of its text:
\* the configuration, the sources and the volumes.  The header of a volume
\* is an object of strings and is read back as written.  The camera, the
\* placement of the assets and the time stamp are outside this model.
serialize(conf, srcs, ms, vols) ==
  [config |-> [domainSize |-> JsonVec(conf.domainSize),
               voxelResolution |-> JsonVec(conf.voxelResolution),
               offset |-> JsonVec(conf.offset)],
   sources |-> [i \in 1..Len(srcs) |->
                  [position |-> JsonVec(srcs[i].worldPosition),
                   radius |-> JsonNumber(srcs[i].data.radius),
                   doseCenter |-> JsonNumber(srcs[i].data.doseCenter),
                   dosePeriphery |-> JsonNumber(srcs[i].data.dosePeriphery),
                   falloff |-> srcs[i].data.falloff]],
   assets |-> LET lib == SelectSeq(ms, LAMBDA m : m.isAsset)
              IN [i \in 1..Len(lib) |-> [type |-> "library_asset", name |-> lib[i].name]],
   volumes |-> [i \in 1..Len(vols) |->
                  [header |-> vols[i].header,
                   params |-> JsonParams(vols[i].params),
                   dataBase64 |-> float32ToBase64(vols[i].data)]]]

\* MHDHandler.restore (lines 36-59): createVisualization with its default
\* params, then material.size and points.visible from the saved params
restore(savedData, id) ==
  LET vis == createVisualization(savedData.data, savedData.header, id)
  IN [vis EXCEPT !.materialSize = IF Falsy(savedData.params.pointSize) THEN I(1)
                                  ELSE savedData.params.pointSize,
                 !.visible = savedData.params.visible]

\* step 4 of deserialize: addSource with its defaults, then every field and
\* the scale of the mesh from the file
RestoredSource(srcData) ==
  Source(srcData.position, srcData.radius, srcData.doseCenter, srcData.dosePeriphery, srcData.falloff)

\* a points object that clearScene removed and disposed of
Disposed(id) == [id |-> id, disposed |-> TRUE]

\* the volumes of a scene file that step 6 of deserialize restores: those
\* before the first payload that base64ToFloat32 throws on
Restorable(volumes) ==
  LET bad == {i \in DOMAIN volumes : ~base64ToFloat32(volumes[i].dataBase64).ok}
  IN IF bad = {} THEN Len(volumes) ELSE (CHOOSE i \in bad : \A j \in bad : i <= j) - 1

\* The volumes a scene holds when it is saved: one imported volume, as
\* loadMHD leaves it.
VolumeHeader(dim, spacing) ==
  parseHeader(MhdText(<<"M", "E", "T", "_", "F", "L", "O", "A", "T">>, <<"F", "a", "l", "s", "e">>, dim, spacing, <<"0", " ", "0", " ", "0">>))
VolumeInputs == {
  createVisualization(F32FromValues(<<I(0), I(10)>>), VolumeHeader(<<"2", " ", "1", " ", "1">>, <<"1", " ", "1", " ", "1">>), 1),
  createVisualization(F32FromValues(<<I(2), I(4), I(8)>>), VolumeHeader(<<"3", " ", "1", " ", "1">>, <<"2", " ", "2", " ", "2">>), 1),
  \* a voxel of value -Infinity: minVal is -Infinity and the default
  \* minThreshold, minVal + (maxVal - minVal) * 0.1, is NaN
  createVisualization(F32FromValues(<<NegInf, I(1)>>), VolumeHeader(<<"2", " ", "1", " ", "1">>, <<"1", " ", "1", " ", "1">>), 1) }

MaxObjects == 3

InitScene ==
  /\ persistPc = "editing"
  /\ savedFile = <<>>
  /\ \E v \in VolumeInputs : points = <<v>>
  /\ nextId = 1
  /\ scene = {1}
  /\ importedVolumes = <<1>>
  /\ header = EmptyHeader
  /\ loadPc = [c \in Calls |-> "idle"]
  /\ loadFiles = [c \in Calls |-> 0]
  /\ loadRaw = [c \in Calls |-> NoRaw]
  /\ loadUsed = [c \in Calls |-> EmptyHeader]
  /\ loadRet = [c \in Calls |-> 0]
  /\ alerts = <<>>
  /\ warnings = <<>>
  /\ exportPc = "idle"
  /\ simulationConfig = [domainSize |-> Vec(I(100000), I(10000), I(100000)),
                         voxelResolution |-> Vec(I(50), I(50), I(50)),
                         offset |-> Vec(I(-50000), I(-5000), I(-50000))]
  /\ sources \in {<<>>, <<ExampleSource>>}
  /\ exported = [raw |-> <<>>, mhd |-> <<>>]
  /\ reimported = [header |-> EmptyHeader, raw |-> NoRaw, vis |-> <<>>]
  /\ B64Idle /\ DoseIdle
  /\ HandoffIdle /\ ParseIdle /\ GuiIdle /\ AssetIdle

\* the values the sliders of a volume folder are moved to
\* between minVal and maxVal, as a fraction of the range
SliderStops == {Fin(1, 2), Fin(3, 10)}
SliderValue(v, f) == NAdd(v.minVal, NMul(NSub(v.maxVal, v.minVal), f))
\* the range of the threshold sliders is finite; what the sliders of lil-gui
\* do over another range is not modelled
FiniteRange(v) == v.minVal.kind = "fin" /\ v.maxVal.kind = "fin"
SizeEdits == {I(2)}
SceneUnchanged == UNCHANGED <<nextId, scene, importedVolumes, alerts, simulationConfig, sources, savedFile, gui, assetVars>>

\* the Visible checkbox of a volume folder
SetVisible(i, b) ==
  /\ i \in scene
  /\ points' = [points EXCEPT ![i].params.visible = b, ![i].visible = b]
  /\ persistPc' = "editing"
  /\ SceneUnchanged
  /\ UNCHANGED notPersist

\* the Point Size slider
SetPointSize(i, v) ==
  /\ i \in scene
  /\ points' = [points EXCEPT ![i].params.pointSize = v, ![i].materialSize = v]
  /\ persistPc' = "editing"
  /\ SceneUnchanged
  /\ UNCHANGED notPersist

\* the Min Dose slider, were its callback without the line that raises
\* maxThreshold
SetMinDose_NoClamp(i, f) ==
  /\ i \in scene
  /\ FiniteRange(points[i])
  /\ LET v == SliderValue(points[i], f)
         maxT == points[i].params.maxThreshold
     IN points' = [points EXCEPT ![i].params.minThreshold = v,
                                 ![i].params.maxThreshold = maxT,
                                 ![i].shown = updateGeometry(points[i].data, v, maxT)]
  /\ persistPc' = "editing"
  /\ SceneUnchanged
  /\ UNCHANGED notPersist

\* the Min Dose slider
SetMinDose(i, f) ==
  /\ i \in scene
  /\ FiniteRange(points[i])
  /\ LET v == SliderValue(points[i], f)
         maxT == IF NGt(v, points[i].params.maxThreshold) THEN v ELSE points[i].params.maxThreshold
     IN points' = [points EXCEPT ![i].params.minThreshold = v,
                                 ![i].params.maxThreshold = maxT,
                                 ![i].shown = updateGeometry(points[i].data, v, maxT)]
  /\ persistPc' = "editing"
  /\ SceneUnchanged
  /\ UNCHANGED notPersist

\* the Max Dose slider
SetMaxDose(i, f) ==
  /\ i \in scene
  /\ FiniteRange(points[i])
  /\ LET v == SliderValue(points[i], f)
         minT == IF NLt(v, points[i].params.minThreshold) THEN v ELSE points[i].params.minThreshold
     IN points' = [points EXCEPT ![i].params.maxThreshold = v,
                                 ![i].params.minThreshold = minT,
                                 ![i].shown = updateGeometry(points[i].data, minT, v)]
  /\ persistPc' = "editing"
  /\ SceneUnchanged
  /\ UNCHANGED notPersist

\* RadiationSceneManager.saveScene
SaveScene ==
  /\ savedFile' = <<serialize(simulationConfig, sources, meshes,
                              [i \in 1..Len(importedVolumes) |-> points[importedVolumes[i]]])>>
  /\ persistPc' = "saved"
  /\ UNCHANGED <<sceneVars, alerts, simulationConfig, sources, gui, assetVars>>
  /\ UNCHANGED notPersist

\* the loadMHD calls and the asset requests that have not completed
InFlight == {c \in Calls : loadPc[c] \in {"readText", "readBuffer", "then"}}
MarkStale(loads) == [j \in 1..Len(loads) |->
                       IF loads[j].pc = "pending" THEN [loads[j] EXCEPT !.stale = TRUE] ELSE loads[j]]
\* loadAssetFromUrl: one STLLoader.load request
AssetRequest(name) == [name |-> name, isAsset |-> TRUE, pc |-> "pending", stale |-> FALSE]

\* SceneSerializer.deserialize of a parsed scene file: clearScene (which
\* ends with initGUI), then the configuration, the sources, the asset
\* requests and the volumes; an exception of step 6 is caught and alerted.
\* The controllers made by initGUI hold the domainSize, voxelResolution and
\* offset objects of that moment, and step 2 puts the objects of the file in
\* their place.
Deserialize(state) ==
  LET n == Restorable(state.volumes)
      cleared == Range(importedVolumes)
      restored == [i \in 1..n |->
                     restore([header |-> state.volumes[i].header,
                              params |-> state.volumes[i].params,
                              data |-> base64ToFloat32(state.volumes[i].dataBase64).arr],
                             nextId + i)]
      lib == SelectSeq(state.assets, LAMBDA a : a.type = "library_asset")
  IN /\ nextId + n <= MaxObjects
     /\ Len(alerts) < MaxObjects
     /\ Len(assetLoads) + Len(lib) <= MaxObjects
     /\ points' = [i \in 1..Len(points) |-> IF i \in cleared THEN Disposed(i) ELSE points[i]] \o restored
     /\ scene' = (scene \ cleared) \cup {nextId + i : i \in 1..n}
     /\ importedVolumes' = [i \in 1..n |-> nextId + i]
     /\ nextId' = nextId + n
     /\ simulationConfig' = state.config
     /\ gui' = [linked |-> FALSE, edit |-> NoEdit, box |-> BoxOf(state.config)]
     /\ sources' = [i \in 1..Len(state.sources) |-> RestoredSource(state.sources[i])]
     /\ meshes' = <<>>
     /\ assetLoads' = MarkStale(assetLoads) \o [i \in 1..Len(lib) |-> AssetRequest(lib[i].name)]
     /\ staleLoads' = staleLoads \cup InFlight
     /\ alerts' = IF n < Len(state.volumes)
                  THEN Append(alerts, "Invalid scene file format or file too large.")
                  ELSE alerts

\* RadiationSceneManager.loadScene of the saved file
LoadScene ==
  /\ savedFile # <<>>
  /\ Deserialize(savedFile[1])
  /\ persistPc' = "loaded"
  /\ UNCHANGED savedFile
  /\ UNCHANGED notPersist

\* the Remove Volume button of a volume folder (lines 251-259): the points
\* object leaves the scene and its folder is destroyed
RemoveVolume(i) ==
  /\ i \in scene
  /\ scene' = scene \ {i}
  /\ persistPc' = "editing"
  /\ UNCHANGED <<nextId, points, importedVolumes, alerts, simulationConfig, sources, savedFile, gui, assetVars>>
  /\ UNCHANGED notPersist

NextScene ==
  \/ \E i \in 1..MaxObjects, b \in BOOLEAN : SetVisible(i, b)
  \/ \E i \in 1..MaxObjects, v \in SizeEdits : SetPointSize(i, v)
  \/ \E i \in 1..MaxObjects, f \in SliderStops : SetMinDose(i, f)
  \/ \E i \in 1..MaxObjects, f \in SliderStops : SetMaxDose(i, f)
  \/ \E i \in 1..MaxObjects : RemoveVolume(i)
  \/ SaveScene
  \/ LoadScene

SpecScene == InitScene /\ [][NextScene]_vars

\* C3: after serialize followed by deserialize, every restored volume
\* carries exactly the presentation params that were saved (minThreshold,
\* maxThreshold, pointSize and visible of its userData.params), so that
\* saving again writes the same params.
C3_RestoredParamsEqualSaved ==
  persistPc = "loaded" =>
    /\ Len(importedVolumes) = Len(savedFile[1].volumes)
    /\ \A i \in DOMAIN importedVolumes :
         /\ points[importedVolumes[i]].params = savedFile[1].volumes[i].params
         /\ serialize(simulationConfig, sources, meshes,
                      [j \in 1..Len(importedVolumes) |-> points[importedVolumes[j]]]).volumes[i].params
              = savedFile[1].volumes[i].params

\* C18: every volume of manager.importedVolumes is a child of the scene: a
\* volume removed with its Remove Volume button is no longer in
\* importedVolumes, and a later saveScene writes only volumes of the scene.
C18_ImportedVolumesAreInScene ==
  /\ \A i \in Range(importedVolumes) : i \in scene
  /\ persistPc = "saved" => Len(savedFile[1].volumes) = Cardinality(scene)

\* the voxels of a volume whose value lies in the window of its params
InWindow(v) ==
  {k \in 0..(F32Length(v.data) - 1) :
     /\ NLe(v.params.minThreshold, F32Get(v.data, k))
     /\ NLe(F32Get(v.data, k), v.params.maxThreshold)}
WindowDisplayed(v) ==
  /\ NLe(v.params.minThreshold, v.params.maxThreshold)
  /\ v.shown = InWindow(v)
DataKept == \A i \in Range(importedVolumes) \cap Range(importedVolumes') : points'[i].data = points[i].data

\* C20 as stated: for every imported volume, after any sequence of Min Dose
\* and Max Dose changes, minThreshold <= maxThreshold, the displayed points
\* are exactly the voxels whose value lies between the two thresholds of the
\* current params, and no step changes the data array of the volume.
C20_ThresholdWindowDisplayed ==
  /\ [](\A i \in Range(importedVolumes) : WindowDisplayed(points[i]))
  /\ [][DataKept]_vars
\* C20 amended: the same for every imported volume whose value range
\* [minVal, maxVal] is finite; the data array is left unchanged for every
\* imported volume.
C20_FiniteRangeWindowDisplayed ==
  /\ [](\A i \in Range(importedVolumes) : FiniteRange(points[i]) => WindowDisplayed(points[i]))
  /\ [][DataKept]_vars
\* both sliders of a volume were moved and a part of its voxels is displayed
C20_Witness ==
  \E i \in scene :
    /\ points[i].params.minThreshold = SliderValue(points[i], Fin(3, 10))
    /\ points[i].params.maxThreshold = SliderValue(points[i], Fin(1, 2))
    /\ points[i].shown # {}
    /\ points[i].shown # 0..(F32Length(points[i].data) - 1)

----------------------------------------------------------------------------
(* RadiationSceneManager: scene files, the Voxel Domain folder and export *)

FileConfig(size, res) == [domainSize |-> size, voxelResolution |-> res, offset |-> Vec(I(0), I(0), I(0))]
FileParams == [minThreshold |-> I(1), maxThreshold |-> I(10), pointSize |-> Fin(9, 10), visible |-> TRUE]
FileVolume(dataBase64) ==
  [header |-> VolumeHeader(<<"2", " ", "1", " ", "1">>, <<"1", " ", "1", " ", "1">>), params |-> FileParams, dataBase64 |-> dataBase64]
\* payloads: two floats; five bytes (one float and a byte); a character outside the alphabet
GoodPayload == float32ToBase64(F32FromValues(<<I(0), I(10)>>))
OddLengthPayload == BtoA(<<0, 0, 32, 65, 7>>)
NotBase64Payload == <<"A", "A", "A", "A", "*", "A", "A", "A">>

\* Scene files as JSON.parse reads them.  deserialize takes the
\* configuration, the sources and the payloads as they are in the file.
SceneFiles == <<
  \* a resolution of 0 along x
  [config |-> FileConfig(Vec(I(120), I(120), I(120)), Vec(I(0), I(1), I(1))),
   sources |-> <<>>, assets |-> <<>>, volumes |-> <<>>],
  \* a source with a falloff name of its own; a payload of five bytes
  \* between two payloads of two floats
  [config |-> FileConfig(Vec(I(240), I(120), I(120)), Vec(I(2), I(1), I(1))),
   sources |-> <<[position |-> Vec(I(0), I(0), I(0)), radius |-> I(10), doseCenter |-> I(100),
                  dosePeriphery |-> I(0), falloff |-> "Bounce"]>>,
   assets |-> <<>>,
   volumes |-> <<FileVolume(GoodPayload), FileVolume(OddLengthPayload), FileVolume(GoodPayload)>>],
  \* a payload that is no base64 text, before a payload of two floats
  [config |-> FileConfig(Vec(I(240), I(120), I(120)), Vec(I(2), I(1), I(1))),
   sources |-> <<>>, assets |-> <<>>,
   volumes |-> <<FileVolume(NotBase64Payload), FileVolume(GoodPayload)>>] >>

InitFile ==
  /\ persistPc = "editing"
  /\ savedFile = <<>>
  /\ exportPc = "idle"
  /\ simulationConfig = SmallConfig
  /\ sources = <<>>
  /\ exported = [raw |-> <<>>, mhd |-> <<>>]
  /\ reimported = [header |-> EmptyHeader, raw |-> NoRaw, vis |-> <<>>]
  /\ GuiIdle
  /\ LoadIdle /\ B64Idle /\ DoseIdle /\ HandoffIdle /\ ParseIdle /\ AssetIdle

\* RadiationSceneManager.loadScene of a scene file
LoadSceneFile(k) ==
  /\ exportPc = "idle"
  /\ Deserialize(SceneFiles[k])
  /\ savedFile' = <<SceneFiles[k]>>
  /\ persistPc' = "loaded"
  /\ UNCHANGED notPersist

\* RadiationSceneManager.clearScene: sources, meshes and imported volumes
\* leave the scene, then initGUI makes the controllers anew on the
\* domainSize, voxelResolution and offset objects of simulationConfig
ClearScene ==
  /\ exportPc = "idle"
  /\ points' = [i \in 1..Len(points) |-> IF i \in Range(importedVolumes) THEN Disposed(i) ELSE points[i]]
  /\ scene' = scene \ Range(importedVolumes)
  /\ importedVolumes' = <<>>
  /\ sources' = <<>>
  /\ meshes' = <<>>
  /\ assetLoads' = MarkStale(assetLoads)
  /\ staleLoads' = staleLoads \cup InFlight
  /\ gui' = [linked |-> TRUE, edit |-> gui.edit, box |-> BoxOf(simulationConfig)]
  /\ persistPc' = "editing"
  /\ UNCHANGED <<nextId, alerts, simulationConfig, savedFile>>
  /\ UNCHANGED notPersist

\* exportGateFiles with the configuration and the sources as they are
ExportFiles ==
  /\ exportPc = "idle"
  /\ ~AllocThrows(GateGrid(simulationConfig).totalVoxels)
  /\ exported' = exportGateFiles(simulationConfig, sources)
  /\ exportPc' = "exported"
  /\ UNCHANGED <<simulationConfig, sources, reimported>>
  /\ UNCHANGED notExport

\* the two files are with the user
ExportTaken ==
  /\ exportPc = "exported"
  /\ exported' = [raw |-> <<>>, mhd |-> <<>>]
  /\ exportPc' = "idle"
  /\ UNCHANGED <<simulationConfig, sources, reimported>>
  /\ UNCHANGED notExport

NextFile ==
  \/ \E k \in 1..3 : LoadSceneFile(k)
  \/ ClearScene
  \/ \E e \in GuiEdits : EditDomain(e)
  \/ ExportFiles
  \/ ExportTaken

SpecFile == InitFile /\ [][NextFile]_vars

\* C14: after any sequence of GUI edits of the voxel domain and of scene
\* loads, every header written by exportGateFiles has three integer DimSize
\* entries all > 0 and three ElementSpacing entries all finite and > 0, and
\* the payload holds as many values as the product of the DimSize entries.
C14_ExportedGridWellFormed ==
  exportPc = "exported" =>
    LET h == parseHeader(exported.mhd)
        dims == NumList(HGet(h, kDimSize))
        spacing == NumList(HGet(h, kElementSpacing))
    IN /\ Len(dims) = 3
       /\ \A i \in 1..3 : dims[i].kind = "fin" /\ dims[i].d = 1 /\ dims[i].n > 0
       /\ Len(spacing) = 3
       /\ \A i \in 1..3 : spacing[i].kind = "fin" /\ spacing[i].n > 0
       /\ F32Length(exported.raw) = dims[1].n * dims[2].n * dims[3].n

\* the text is rejected by atob, or decodes to a number of bytes that is no
\* multiple of 4
BadPayload(text) == ~AtoB(text).ok \/ Len(AtoB(text).bin) % 4 # 0

\* C15: base64ToFloat32 on a payload whose decoded byte length is not a
\* multiple of 4, or whose text is not valid base64, fails and yields no
\* float array, and deserialize creates no volume from that payload: every
\* volume restored from a scene file holds the floats of a well-formed
\* payload of that file.
C15_BadPayloadMakesNoVolume ==
  persistPc = "loaded" =>
    LET vols == savedFile[1].volumes IN
    /\ \A i \in DOMAIN vols :
         BadPayload(vols[i].dataBase64) => base64ToFloat32(vols[i].dataBase64) = NoDecode
    /\ Len(importedVolumes) <= Len(vols)
    /\ \A j \in DOMAIN importedVolumes :
         /\ ~BadPayload(vols[j].dataBase64)
         /\ points[importedVolumes[j]].data = AtoB(vols[j].dataBase64).bin
\* a file whose second payload is five bytes long was loaded: the volume
\* before it was restored, none was made of it
C15_Witness ==
  /\ persistPc = "loaded"
  /\ Len(savedFile[1].volumes) = 3
  /\ BadPayload(savedFile[1].volumes[2].dataBase64)
  /\ Len(importedVolumes) = 1
  /\ importedVolumes[1] \in scene
  /\ alerts # <<>>

\* C17: the objects the Voxel Domain controllers write to are the ones
\* exportGateFiles reads: the value last set through a controller is the
\* value in simulationConfig, which the next export uses, and the domain box
\* is the box of that configuration.
C17_GuiWritesWhatExportReads ==
  gui.edit # NoEdit =>
    /\ simulationConfig[gui.edit[1][1]][gui.edit[1][2]] = gui.edit[1][3]
    /\ gui.box = BoxOf(simulationConfig)

----------------------------------------------------------------------------
(* RadiationSceneManager: loads that complete after the scene was cleared *)

AssetNames == {"couch"}
MaxAssetLoads == 2
\* the loadMHD calls made here
AsyncCalls == {1}
\* a scene file with one library asset
AssetScene ==
  [config |-> SmallConfig, sources |-> <<>>,
   assets |-> <<[type |-> "library_asset", name |-> "couch"]>>, volumes |-> <<>>]

\* loadAssetSTL: an asset of the library is requested
LoadAsset(name) ==
  /\ Len(assetLoads) < MaxAssetLoads
  /\ assetLoads' = Append(assetLoads, AssetRequest(name))
  /\ UNCHANGED <<meshes, staleLoads, gui>>
  /\ UNCHANGED <<loadVars, sceneVars, logVars, b64Vars, doseVars, exportVars, persistVars,
                 handoffVars, parseVars>>

\* the onLoad callback of STLLoader.load: processLoadedGeometry adds the
\* mesh to worldGroup and to meshes
AssetLoaded(j) ==
  /\ j \in DOMAIN assetLoads
  /\ assetLoads[j].pc = "pending"
  /\ assetLoads' = [assetLoads EXCEPT ![j].pc = "loaded"]
  /\ meshes' = Append(meshes, [name |-> assetLoads[j].name, isAsset |-> assetLoads[j].isAsset,
                               load |-> j])
  /\ UNCHANGED <<staleLoads, gui>>
  /\ UNCHANGED <<loadVars, sceneVars, logVars, b64Vars, doseVars, exportVars, persistVars,
                 handoffVars, parseVars>>

\* the onError callback of STLLoader.load
AssetFailed(j) ==
  /\ j \in DOMAIN assetLoads
  /\ assetLoads[j].pc = "pending"
  /\ assetLoads' = [assetLoads EXCEPT ![j].pc = "failed"]
  /\ alerts' = Append(alerts, "Failed to load asset")
  /\ UNCHANGED <<meshes, staleLoads, gui, warnings>>
  /\ UNCHANGED <<loadVars, sceneVars, b64Vars, doseVars, exportVars, persistVars,
                 handoffVars, parseVars>>

\* loadScene of the file with the asset
LoadAssetScene ==
  /\ Deserialize(AssetScene)
  /\ savedFile' = <<AssetScene>>
  /\ persistPc' = "loaded"
  /\ UNCHANGED notPersist

NextAsync ==
  \/ \E name \in AssetNames : LoadAsset(name)
  \/ \E j \in 1..MaxObjects : AssetLoaded(j)
  \/ \E j \in 1..MaxObjects : AssetFailed(j)
  \/ \E c \in AsyncCalls : loadMHD(c, 1)
  \/ \E c \in AsyncCalls : HeaderLoaded(c)
  \/ \E c \in AsyncCalls : BufferLoaded(c)
  \/ \E c \in AsyncCalls : LoadThen(c)
  \/ ClearScene
  \/ LoadAssetScene

SpecAsync == InitLoad /\ [][NextAsync]_vars

\* C19: a load started before a clearScene or a scene load does not add its
\* object when it completes after the clear: no mesh of meshes comes from an
\* asset request that was pending at a clear, and no volume of a loadMHD
\* call that was in flight at a clear is in the scene or in importedVolumes.
C19_StaleLoadAddsNothing ==
  /\ \A j \in DOMAIN assetLoads :
       assetLoads[j].stale => \A i \in DOMAIN meshes : meshes[i].load # j
  /\ \A c \in staleLoads :
       loadRet[c] # 0 => loadRet[c] \notin scene /\ loadRet[c] \notin Range(importedVolumes)

====
